---- MODULE Spec2Model ----
(***************************************************************************)
(* A model of the WPAC dashboard backend: the archive loader               *)
(* (parsers/ibtracs.js), the bulletin parser (parsers/bdeck.js), the       *)
(* metrics engine (services/metrics.js) and the request handlers that      *)
(* combine them (routes/api.js).                                           *)
(*                                                                         *)
(* Conventions of the model                                                *)
(*   - an instant is a whole number of hours since 1 January of EpochYear, *)
(*     00:00 UTC; the end-of-day instant 23:59:59.999 is kept apart as the *)
(*     last hour of its day plus EodMs milliseconds;                       *)
(*   - a latitude or longitude is a whole number of tenths of a degree;    *)
(*   - a wind is a whole number of knots;                                  *)
(*   - an ACE amount is a whole number of 1/10000 units (v*v/10000);       *)
(*   - a JavaScript Map is a sequence of [key, val] entries in insertion   *)
(*     order; a JavaScript null/undefined number is NULL;                  *)
(*   - a storm id is a record [ext, nm, yr, anchor]: an external text id   *)
(*     has only ext set, a synthetic `${nm}_${yr}_${anchor}` key has ext   *)
(*     empty.                                                              *)
(***************************************************************************)
EXTENDS Integers, Sequences, FiniteSets, TLC

\* ------------------------------------------------------------------------
\* Bounds of the model
\* ------------------------------------------------------------------------
\* Longest archive file (rows) explored by the loader pipeline.
MaxRows == 3
\* Longest bulletin file (lines) explored by the bulletin pipeline.
MaxLines == 2
MaxFixes == 2
MaxWindKt == 45
MaxTrack == 3
GridMargin == 2
MaxMtime == 2
MaxLoads == 3
\* Storm numbers probed by one call of fetchActiveBDecks, and the tasks of
\* one batch (60 and 8 in the code).
MaxProbe == 4
BatchSize == 2

\* ------------------------------------------------------------------------
\* Program constants
\* ------------------------------------------------------------------------
NULL == -9999
\* First season served from bulletins (api.js: `if (year >= 2025)`).
BulletinYear == 2025
\* The gap (hours) above which an unnamed group is split.
GapHours == 24
\* Reserved invest numbers.
InvestLo == 90
InvestHi == 99
\* The storm numbers the routes probe: `fetchActiveBDecks(year, 60)`.
DefaultMax == 60
\* The largest number GET /current/bdecks probes.
MaxStormNum == 99

EpochYear == BulletinYear - 2
ArchiveYear == BulletinYear - 1
Years == (EpochYear - 1)..(BulletinYear + 1)

\* ------------------------------------------------------------------------
\* Calendar (JavaScript Date in UTC)
\* ------------------------------------------------------------------------
NLEAP_CUM == <<0, 31, 59, 90, 120, 151, 181, 212, 243, 273, 304, 334>>
LEAP_CUM == <<0, 31, 60, 91, 121, 152, 182, 213, 244, 274, 305, 335>>

isLeap(y) == (y % 4 = 0 /\ y % 100 # 0) \/ (y % 400 = 0)

DaysInYear(y) == IF isLeap(y) THEN 366 ELSE 365

CumDays(y) == IF isLeap(y) THEN LEAP_CUM ELSE NLEAP_CUM

RECURSIVE DaysBeforeYear(_)
DaysBeforeYear(y) ==
  IF y = EpochYear THEN 0
  ELSE IF y > EpochYear THEN DaysBeforeYear(y - 1) + DaysInYear(y - 1)
  ELSE DaysBeforeYear(y + 1) - DaysInYear(y)

\* Date.UTC(y, m, d, h): m is 0-based; out-of-range months, days and hours
\* carry over into the next (or previous) unit, as Date.UTC does.
DateUTC(y, m, d, h) ==
  LET yy == y + (m \div 12)
      mm == m % 12
  IN  (DaysBeforeYear(yy) + CumDays(yy)[mm + 1] + (d - 1)) * 24 + h

DayOf(t) == t \div 24

getUTCFullYear(t) ==
  CHOOSE y \in Years : DaysBeforeYear(y) <= DayOf(t) /\ DayOf(t) < DaysBeforeYear(y + 1)

DayOfYear(t) == DayOf(t) - DaysBeforeYear(getUTCFullYear(t))

getUTCMonth(t) ==
  LET y == getUTCFullYear(t)
      cum == CumDays(y)
      doy == DayOf(t) - DaysBeforeYear(y)
  IN  CHOOSE m \in 0..11 : cum[m + 1] <= doy /\ (m = 11 \/ doy < cum[m + 2])

getUTCDate(t) ==
  LET y == getUTCFullYear(t)
      cum == CumDays(y)
      doy == DayOf(t) - DaysBeforeYear(y)
      m == CHOOSE k \in 0..11 : cum[k + 1] <= doy /\ (k = 11 \/ doy < cum[k + 2])
  IN  doy - cum[m + 1] + 1

getUTCHours(t) == t % 24

\* dayjs.utc(t).format('YYYYMMDDHH'), read as a number.
FormatYMDH(t) ==
  getUTCFullYear(t) * 1000000 + (getUTCMonth(t) + 1) * 10000 + getUTCDate(t) * 100 + getUTCHours(t)

\* ------------------------------------------------------------------------
\* Helpers for JavaScript arrays and Maps
\* ------------------------------------------------------------------------
MapHas(m, k) == \E i \in 1..Len(m) : m[i].key = k

MapIdx(m, k) == CHOOSE i \in 1..Len(m) : m[i].key = k

MapGet(m, k) == m[MapIdx(m, k)].val

MapKeys(m) == {m[i].key : i \in 1..Len(m)}

\* map.get(k).push(x), creating the entry at the end when k is new.
MapPush(m, k, x) ==
  IF MapHas(m, k) THEN [m EXCEPT ![MapIdx(m, k)].val = Append(@, x)]
  ELSE Append(m, [key |-> k, val |-> <<x>>])

\* Array.prototype.sort with a numeric comparator is stable: elements are
\* [sk, item] pairs ordered by sk, equal sk keeping their order.
RECURSIVE StableInsert(_, _)
StableInsert(x, s) ==
  IF s = <<>> THEN <<x>>
  ELSE IF s[Len(s)].sk <= x.sk THEN Append(s, x)
  ELSE Append(StableInsert(x, SubSeq(s, 1, Len(s) - 1)), s[Len(s)])

RECURSIVE StableSort(_)
StableSort(s) ==
  IF s = <<>> THEN <<>>
  ELSE StableInsert(s[Len(s)], StableSort(SubSeq(s, 1, Len(s) - 1)))

\* list.sort((a, b) => a.time - b.time)
SortByTime(list) ==
  LET keyed == [i \in 1..Len(list) |-> [sk |-> list[i].time, item |-> list[i]]]
      sorted == StableSort(keyed)
  IN  [i \in 1..Len(list) |-> sorted[i].item]

\* ------------------------------------------------------------------------
\* Archive loader (parsers/ibtracs.js)
\* ------------------------------------------------------------------------
NoId == [ext |-> "", nm |-> "", yr |-> 0, anchor |-> 0]

ExtId(s) == [ext |-> s, nm |-> "", yr |-> 0, anchor |-> 0]

SynId(nm, yr, anchor) == [ext |-> "", nm |-> nm, yr |-> yr, anchor |-> anchor]

\* String.prototype.toUpperCase on the names of the model.
toUpperCase(s) == IF s = "alice" THEN "ALICE" ELSE s

toNum(v) == IF v = NULL THEN NULL ELSE v

\* parseDateIB: the cell's instant, NULL for a cell that no format parses.
parseDateIB(v) == IF v = NULL THEN NULL ELSE v

\* Step 1 of loadIBTrACS: one raw row to one normalized row.
Normalize(r) ==
  LET presRaw == toNum(r.USA_PRES)
  IN  [season |-> toNum(r.SEASON), basin |-> r.BASIN, nature |-> r.NATURE,
       time |-> parseDateIB(r.ISO_TIME),
       lat |-> toNum(r.USA_LAT), lon |-> toNum(r.USA_LON),
       usaWind |-> toNum(r.USA_WIND),
       usaPres |-> IF presRaw # NULL /\ presRaw > 0 THEN presRaw ELSE NULL,
       name |-> IF r.NAME = "" THEN "UNNAMED" ELSE r.NAME,
       stormId |-> IF r.USA_ATCF_ID # "" THEN ExtId(r.USA_ATCF_ID)
                   ELSE IF r.SID # "" THEN ExtId(r.SID) ELSE NoId]

KeepRow(r) == r.time # NULL /\ r.basin = "WP" /\ r.nature \notin {"DS", "ET"}

BasicNormalization(raw) ==
  SelectSeq([i \in 1..Len(raw) |-> Normalize(raw[i])], KeepRow)

\* The key `${name.toUpperCase()}_${season || ''}` of a name/season group.
GroupKey(r) == <<toUpperCase(r.name), IF r.season = NULL THEN 0 ELSE r.season>>

RECURSIVE ByNameSeason(_, _, _)
ByNameSeason(rows, i, m) ==
  IF i > Len(rows) THEN m
  ELSE ByNameSeason(rows, i + 1, MapPush(m, GroupKey(rows[i]), rows[i]))

\* counts.set(id, (counts.get(id) || 0) + 1) over the rows that carry an id.
RECURSIVE CountIds(_, _, _)
CountIds(list, i, counts) ==
  IF i > Len(list) THEN counts
  ELSE LET id == list[i].stormId
       IN  IF id = NoId THEN CountIds(list, i + 1, counts)
           ELSE IF MapHas(counts, id)
                THEN CountIds(list, i + 1, [counts EXCEPT ![MapIdx(counts, id)].val = @ + 1])
                ELSE CountIds(list, i + 1, Append(counts, [key |-> id, val |-> 1]))

\* MostFrequent with the comparator the other way round (a[1]-b[1]).
LeastFrequent(counts) ==
  LET keyed == [i \in 1..Len(counts) |-> [sk |-> counts[i].val, item |-> counts[i]]]
  IN  StableSort(keyed)[1].item.key

\* [...counts.entries()].sort((a,b)=>b[1]-a[1])[0][0]
MostFrequent(counts) ==
  LET keyed == [i \in 1..Len(counts) |-> [sk |-> 0 - counts[i].val, item |-> counts[i]]]
  IN  StableSort(keyed)[1].item.key

\* canonicalIdForGroup(name, season, list): NoId stands for `null`.
canonicalIdForGroup(name, season, list) ==
  IF toUpperCase(name) # "UNNAMED"
  THEN LET counts == CountIds(list, 1, <<>>)
       IN  IF Len(counts) > 0 THEN MostFrequent(counts) ELSE NoId
  ELSE NoId

\* The id one segment receives, and the segment with that id on every row.
SegId(seg, nm, yr) ==
  LET withId == SelectSeq(seg, LAMBDA x : x.stormId # NoId)
  IN  IF withId # <<>> THEN withId[1].stormId
      ELSE SynId(nm, yr, FormatYMDH(seg[1].time))

SetStormId(list, id) == [j \in 1..Len(list) |-> [list[j] EXCEPT !.stormId = id]]

FlushSeg(seg, nm, yr) ==
  IF seg # <<>> THEN SetStormId(seg, SegId(seg, nm, yr)) ELSE <<>>

\* GapSplits with the comparison off by one (>= 24).
GapSplitsFrom(gapHrs) == gapHrs >= GapHours

\* The gap in hours that starts a new segment.
GapSplits(gapHrs) == gapHrs > GapHours

\* The segmentation loop over one time-sorted group.
RECURSIVE Segment(_, _, _, _, _, _)
Segment(list, i, seg, out, nm, yr) ==
  IF i > Len(list) THEN out \o FlushSeg(seg, nm, yr)
  ELSE LET cur == list[i]
           gapHrs == IF i > 1 THEN cur.time - list[i - 1].time ELSE 0
       IN  IF i = 1 \/ ~GapSplits(gapHrs)
           THEN Segment(list, i + 1, Append(seg, cur), out, nm, yr)
           ELSE Segment(list, i + 1, <<cur>>, out \o FlushSeg(seg, nm, yr), nm, yr)

\* Step 2 of loadIBTrACS for one name/season group.
CanonicalizeGroup(key, list0) ==
  LET nm == key[1]
      yr == key[2]
      list == SortByTime(list0)
      canon == canonicalIdForGroup(nm, yr, list)
  IN  IF canon # NoId THEN SetStormId(list, canon)
      ELSE Segment(list, 1, <<>>, <<>>, nm, yr)

RECURSIVE CanonicalizeAll(_, _)
CanonicalizeAll(groups, i) ==
  IF i > Len(groups) THEN <<>>
  ELSE CanonicalizeGroup(groups[i].key, groups[i].val) \o CanonicalizeAll(groups, i + 1)

\* The key of the de-duplication step: `${id}|${time}`.
DedupId(r) == IF r.stormId # NoId THEN r.stormId ELSE SynId(r.name, r.season, 0)

\* Step 3 of loadIBTrACS: drop a row whose key was seen, keep the first.
RECURSIVE Dedup(_, _, _, _)
Dedup(out, i, seen, keep) ==
  IF i > Len(out) THEN keep
  ELSE LET r == out[i]
           k == <<DedupId(r), r.time>>
       IN  IF k \in seen THEN Dedup(out, i + 1, seen, keep)
           ELSE Dedup(out, i + 1, seen \cup {k}, Append(keep, [r EXCEPT !.stormId = DedupId(r)]))

loadIBTrACS(raw) ==
  LET rows0 == BasicNormalization(raw)
      groups == ByNameSeason(rows0, 1, <<>>)
      out == CanonicalizeAll(groups, 1)
  IN  Dedup(out, 1, {}, <<>>)

filterWP(rows) == rows

\* The key groupByStorm files a row under.
StormKey(r) ==
  IF r.stormId # NoId THEN r.stormId
  ELSE SynId(toUpperCase(IF r.name = "" THEN "UNNAMED" ELSE r.name),
             IF r.season = NULL THEN 0 ELSE r.season, 0)

RECURSIVE GroupRows(_, _, _, _)
GroupRows(rows, year, i, m) ==
  IF i > Len(rows) THEN m
  ELSE IF year # 0 /\ rows[i].season # year THEN GroupRows(rows, year, i + 1, m)
  ELSE GroupRows(rows, year, i + 1, MapPush(m, StormKey(rows[i]), rows[i]))

\* The final per-storm ordering of groupByStorm.
SortTrack(arr) == SortByTime(arr)

\* groupByStorm(rows, year); year = 0 stands for a call without a year.
groupByStorm(rows, year) ==
  LET m == GroupRows(rows, year, 1, <<>>)
  IN  [i \in 1..Len(m) |-> [key |-> m[i].key, val |-> SortTrack(m[i].val)]]

\* ------------------------------------------------------------------------
\* Bulletin parser (parsers/bdeck.js) and its conversion (routes/api.js)
\* ------------------------------------------------------------------------
\* A timestamp column is [digits10, y, mo, d, h]: digits10 says that the text
\* is exactly ten digits, and y, mo, d, h are the numbers its slices read as.
\* A coordinate column is [digits, ndig, hemi]: the number its leading digits
\* read as, how many digits there are, and the letter that follows them.

toInt(v) == IF v = NULL THEN NULL ELSE v

parseYMDH(ymdh) ==
  IF ~ymdh.digits10 THEN NULL
  ELSE DateUTC(ymdh.y, ymdh.mo - 1, ymdh.d, ymdh.h)

\* /^(\d+)(\d)([NS])$/i : sgn * (deg + tenth / 10), in tenths of a degree.
parseLat(token) ==
  IF token.ndig < 2 \/ token.hemi \notin {"N", "S", "n", "s"} THEN NULL
  ELSE LET deg == token.digits \div 10
           tenth == token.digits % 10
           sgn == IF token.hemi \in {"S", "s"} THEN 0 - 1 ELSE 1
       IN  sgn * (deg * 10 + tenth)

parseLon(token) ==
  IF token.ndig < 2 \/ token.hemi \notin {"E", "W", "e", "w"} THEN NULL
  ELSE LET deg == token.digits \div 10
           tenth == token.digits % 10
           sgn == IF token.hemi \in {"W", "w"} THEN 0 - 1 ELSE 1
       IN  sgn * (deg * 10 + tenth)

\* The loop body of parseBDeckText: the points after one more line.
ParseLine(points, line) ==
  IF line.basin # "WP" THEN points
  ELSE LET t == parseYMDH(line.ymdh)
           lat == parseLat(line.latS)
           lon == parseLon(line.lonS)
       IN  IF t = NULL \/ lat = NULL \/ lon = NULL THEN points
           ELSE Append(points, [t |-> t, lat |-> lat, lon |-> lon,
                                wind |-> toInt(line.wind), pres |-> toInt(line.pres)])

RECURSIVE ParseLines(_, _, _)
ParseLines(lines, i, points) ==
  IF i > Len(lines) THEN points
  ELSE ParseLines(lines, i + 1, ParseLine(points, lines[i]))

\* points.sort((a, b) => a.t - b.t)
SortPoints(points) ==
  LET keyed == [i \in 1..Len(points) |-> [sk |-> points[i].t, item |-> points[i]]]
      sorted == StableSort(keyed)
  IN  [i \in 1..Len(points) |-> sorted[i].item]

\* `WP${nn}${year}` as a storm id.
BDeckId(num, year) == [ext |-> "WP", nm |-> "", yr |-> year, anchor |-> num]

parseBDeckText(lines, num, year) ==
  [id |-> BDeckId(num, year), num |-> num, year |-> year,
   points |-> SortPoints(ParseLines(lines, 1, <<>>))]

\* No number is an invest (not the code's).
NeverInvest(n) == FALSE

isInvest(n) == n >= InvestLo /\ n <= InvestHi

\* The points of one bulletin storm in the shape the metrics expect.
BDeckPts(s) ==
  SortByTime([i \in 1..Len(s.points) |->
    [season |-> s.year, time |-> s.points[i].t, lat |-> s.points[i].lat,
     lon |-> s.points[i].lon, usaWind |-> s.points[i].wind,
     usaPres |-> s.points[i].pres, name |-> ""]])

\* map.set(key, val): replaces the value of a key already there.
MapSet(m, k, v) ==
  IF MapHas(m, k) THEN [m EXCEPT ![MapIdx(m, k)].val = v]
  ELSE Append(m, [key |-> k, val |-> v])

RECURSIVE BdeckMapFrom(_, _, _)
BdeckMapFrom(bstorms, i, m) ==
  IF i > Len(bstorms) THEN m
  ELSE IF isInvest(bstorms[i].num) THEN BdeckMapFrom(bstorms, i + 1, m)
  ELSE BdeckMapFrom(bstorms, i + 1, MapSet(m, bstorms[i].id, BDeckPts(bstorms[i])))

bdeckToStormMap(bstorms) == BdeckMapFrom(bstorms, 1, <<>>)

\* ------------------------------------------------------------------------
\* Metrics engine (services/metrics.js): ACE and time helpers
\* ------------------------------------------------------------------------
\* A wind is a whole number of half knots, so that winds halfway between two
\* multiples of 5 kt exist; Kt(k) is the wind of k knots.
Kt(k) == 2 * k

ACE_THRESHOLD == 35

VALID_HOURS == {0, 6, 12, 18}

isSynopticHour(d) == getUTCHours(d) \in VALID_HOURS

\* endOfDayUTC(d) is 23:59:59.999 of the day of d. The model keeps its last
\* whole hour: for an instant t of whole hours, t > endOfDayUTC(d) in the
\* code is t > endOfDayUTC(d) here.
endOfDayUTC(d) == DayOf(d) * 24 + 23

\* A rounding to 5 kt that takes halves downward (not the code's).
round5Down(w) == IF w = NULL THEN NULL ELSE ((w + 4) \div 10) * 5

\* Math.round(Number(w) / 5) * 5, in knots: Math.round takes halves up.
round5(w) == IF w = NULL THEN NULL ELSE ((w + 5) \div 10) * 5

\* (v * v) / 10000.0, in units of 1/10000.
aceFromWindKt(v) == v * v

\* Number(v.toFixed(1)) of an amount of 1/10000 units, in tenths. An amount
\* exactly halfway between two tenths is a decimal tie, taken upward.
toFixed1(v) == (v + 500) \div 1000

\* Number((p / q).toFixed(1)) of a quotient of two amounts of 1/10000 units.
toFixed1Q(p, q) == (2 * p + 1000 * q) \div (2000 * q)

RECURSIVE SumTo(_, _)
SumTo(f, n) == IF n = 0 THEN 0 ELSE SumTo(f, n - 1) + f[n]

\* The sum of an array of numbers.
SumSeq(arr) == SumTo(arr, Len(arr))

\* An array with its elements computed once: the same sequence.
Array(f) == f \o <<>>

\* const w = round5(wind); if (w != null && w >= ACE_THRESHOLD) ... aceFromWindKt(w)
WindAce(wind) ==
  LET w == round5(wind)
  IN  IF w # NULL /\ w >= ACE_THRESHOLD THEN aceFromWindKt(w) ELSE 0

\* The monthly accumulation of computeACEByMonth, before rounding.
ACEByMonthRaw(rws, year, cutoff) ==
  LET limit == IF cutoff # NULL THEN endOfDayUTC(cutoff) ELSE NULL
      Counts(r) == /\ ~(year # 0 /\ r.season # year)
                   /\ ~(limit # NULL /\ r.time > limit)
                   /\ isSynopticHour(r.time)
  IN  [m \in 1..12 |->
        SumSeq([i \in 1..Len(rws) |->
          IF Counts(rws[i]) /\ getUTCMonth(rws[i].time) = m - 1
          THEN WindAce(rws[i].usaWind) ELSE 0])]

computeACEByMonth(rws, year, cutoff) ==
  LET monthly == ACEByMonthRaw(rws, year, cutoff)
  IN  [m \in 1..12 |-> toFixed1(monthly[m])]

\* The accumulation of computeACEByStorm, before rounding.
ACEByStormRaw(stormPoints) ==
  SumSeq([i \in 1..Len(stormPoints) |->
    IF isSynopticHour(stormPoints[i].time) THEN WindAce(stormPoints[i].usaWind) ELSE 0])

computeACEByStorm(stormPoints) == toFixed1(ACEByStormRaw(stormPoints))

\* The accumulation of computeACEYTD, before rounding.
ACEYTDRaw(rws, year, asOfDate) ==
  LET cutoff == endOfDayUTC(asOfDate)
  IN  SumSeq([i \in 1..Len(rws) |->
        IF /\ rws[i].season = year
           /\ ~(rws[i].time > cutoff)
           /\ isSynopticHour(rws[i].time)
        THEN WindAce(rws[i].usaWind) ELSE 0])

computeACEYTD(rws, year, asOfDate) == toFixed1(ACEYTDRaw(rws, year, asOfDate))

\* The monthly accumulation of computeACEYTDMonthlyCum, before the running sum.
ACEYTDMonthlyRaw(rws, year, asOfDate) ==
  LET cutoff == endOfDayUTC(asOfDate)
  IN  [m \in 1..12 |->
        SumSeq([i \in 1..Len(rws) |->
          IF /\ rws[i].season = year
             /\ ~(rws[i].time > cutoff)
             /\ isSynopticHour(rws[i].time)
             /\ getUTCMonth(rws[i].time) = m - 1
          THEN WindAce(rws[i].usaWind) ELSE 0])]

\* running += monthly[i]; cum.push(Number(running.toFixed(1)))
computeACEYTDMonthlyCum(rws, year, asOfDate) ==
  LET monthly == ACEYTDMonthlyRaw(rws, year, asOfDate)
  IN  [m \in 1..12 |-> toFixed1(SumTo(monthly, m))]

computeACEByCutoff(rws, year, cutoffDate) ==
  [total |-> computeACEYTD(rws, year, cutoffDate),
   cumMonthly |-> computeACEYTDMonthlyCum(rws, year, cutoffDate)]

\* The fixes of season y not after the end of (month, day) of year y, at a
\* synoptic hour: what the per-year loops of the climatologies keep.
CountsInYear(r, y, month, day) ==
  /\ r.season = y
  /\ ~(r.time > endOfDayUTC(DateUTC(y, month, day, 0)))
  /\ isSynopticHour(r.time)

\* perMonth of year y in computeACEYTDClimo.
ClimoPerMonth(rws, y, month, day) ==
  [m \in 1..12 |->
    SumSeq([i \in 1..Len(rws) |->
      IF CountsInYear(rws[i], y, month, day) /\ getUTCMonth(rws[i].time) = m - 1
      THEN WindAce(rws[i].usaWind) ELSE 0])]

\* The years the loop `for (y = startYear; y <= endYear; y++)` visits.
YearsOf(startYear, endYear) == [i \in 1..(endYear - startYear + 1) |-> startYear + i - 1]

computeACEYTDClimo(rws, month, day, startYear, endYear) ==
  LET ys == YearsOf(startYear, endYear)
      yearsUsed == Len(ys)
      run == [k \in 1..Len(ys) |->
               [m \in 1..12 |-> SumTo(ClimoPerMonth(rws, ys[k], month, day), m)]]
      sumCumMonthly == [m \in 1..12 |-> SumSeq([k \in 1..Len(ys) |-> run[k][m]])]
      totalSum == SumSeq([k \in 1..Len(ys) |-> run[k][12]])
  IN  [average |-> IF yearsUsed = 0 THEN NULL ELSE toFixed1Q(totalSum, yearsUsed),
       avgCumMonthly |-> [m \in 1..12 |->
         IF yearsUsed = 0 THEN NULL ELSE toFixed1Q(sumCumMonthly[m], yearsUsed)],
       yearsUsed |-> yearsUsed, startYear |-> startYear, endYear |-> endYear]

\* ------------------------------------------------------------------------
\* Metrics engine: daily ACE
\* ------------------------------------------------------------------------
\* 0-based index of the day of d in its own year.
dayIndexUTC(d) ==
  LET y == getUTCFullYear(d)
  IN  DayOf(DateUTC(y, getUTCMonth(d), getUTCDate(d), 0)) - DayOf(DateUTC(y, 0, 1, 0))

\* The day index of d in its own year, Feb 29 and leap years left as they
\* are (not the code's normalisation).
ownDayIndexUTC(d) == dayIndexUTC(d)

\* The normalised day index: Feb 29 has none (NULL), later days of a leap
\* year move one place down.
normDayIndexUTC(d) ==
  LET y == getUTCFullYear(d)
      m == getUTCMonth(d)
      day == getUTCDate(d)
      idx == dayIndexUTC(d)
  IN  IF ~isLeap(y) THEN idx
      ELSE IF m = 1 /\ day = 29 THEN NULL
      ELSE IF m > 1 \/ (m = 1 /\ day > 29) THEN idx - 1
      ELSE idx

normLengthToMonthDay(month, day) == NLEAP_CUM[month + 1] + day

\* dt.toISOString().slice(0, 10), read as the number YYYYMMDD.
IsoDate(t) == getUTCFullYear(t) * 10000 + (getUTCMonth(t) + 1) * 100 + getUTCDate(t)

\* nDays of computeACEDaily.
DailyLength(year, asOfDate) ==
  DayOf(DateUTC(year, getUTCMonth(asOfDate), getUTCDate(asOfDate), 0))
    - DayOf(DateUTC(year, 0, 1, 0)) + 1

\* di of a fix in computeACEDaily: days from Jan 1 of `year` to the day of r.time.
DailyIndex(r, year) == DayOf(r.time) - DayOf(DateUTC(year, 0, 1, 0))

\* daily[] of computeACEDaily after the loop over the rows, before rounding.
ACEDailyRaw(rws, year, asOfDate) ==
  LET end == endOfDayUTC(asOfDate)
      nDays == DailyLength(year, asOfDate)
      counts == Array([i \in 1..Len(rws) |->
                  /\ rws[i].season = year
                  /\ ~(rws[i].time > end)
                  /\ isSynopticHour(rws[i].time)])
      di == Array([i \in 1..Len(rws) |-> DailyIndex(rws[i], year)])
      ace == Array([i \in 1..Len(rws) |-> WindAce(rws[i].usaWind)])
  IN  Array([d \in 1..nDays |->
        SumSeq([i \in 1..Len(rws) |->
          IF counts[i] /\ di[i] = d - 1 THEN ace[i] ELSE 0])])

\* The result built from the array `daily`: the labels, the daily values
\* and the running sums, each rounded to one decimal, and the total.
DailySeries(daily, year) ==
  LET nDays == Len(daily)
      cum == [d \in 1..nDays |-> toFixed1(SumTo(daily, d))]
  IN  [labels |-> [d \in 1..nDays |-> IsoDate(DateUTC(year, 0, d, 0))],
       daily |-> [d \in 1..nDays |-> toFixed1(daily[d])],
       cum |-> cum,
       total |-> IF nDays > 0 THEN cum[nDays] ELSE 0]

computeACEDaily(rws, year, asOfDate) ==
  DailySeries(ACEDailyRaw(rws, year, asOfDate), year)

\* The bucket of a fix in dailyY of computeACEDailyClimo for year y: its
\* normalised day index, NULL when the fix is not counted.
ClimoBucket(r, y, endMonth, endDay) ==
  IF ~CountsInYear(r, y, endMonth, endDay) THEN NULL
  ELSE IF WindAce(r.usaWind) = 0 THEN NULL
  ELSE normDayIndexUTC(r.time)

\* dailyY of year y in computeACEDailyClimo.
ClimoDailyY(rws, y, endMonth, endDay) ==
  LET n == normLengthToMonthDay(endMonth, endDay)
      ni == Array([i \in 1..Len(rws) |-> ClimoBucket(rws[i], y, endMonth, endDay)])
      ace == Array([i \in 1..Len(rws) |-> WindAce(rws[i].usaWind)])
  IN  Array([d \in 1..n |->
        SumSeq([i \in 1..Len(rws) |-> IF ni[i] = d - 1 THEN ace[i] ELSE 0])])

\* run += avgDaily[i]: the running sum of the rounded averages (tenths).
RunOfDaily(avgDaily, d) == SumTo(avgDaily, d)

\* The "MM-DD" label of day i of the synthetic non-leap year, as MM * 100 + DD.
ClimoLabel(i) ==
  LET m == CHOOSE k \in 0..11 : NLEAP_CUM[k + 1] <= i /\ (k = 11 \/ i < NLEAP_CUM[k + 2])
  IN  (m + 1) * 100 + (i - NLEAP_CUM[m + 1] + 1)

computeACEDailyClimo(rws, endMonth, endDay, startYear, endYear) ==
  LET n == normLengthToMonthDay(endMonth, endDay)
      ys == YearsOf(startYear, endYear)
      yearsUsed == Len(ys)
      dailyY == Array([k \in 1..Len(ys) |-> ClimoDailyY(rws, ys[k], endMonth, endDay)])
      sumDaily == Array([d \in 1..n |-> SumSeq([k \in 1..Len(ys) |-> dailyY[k][d]])])
      avgDaily == Array([d \in 1..n |->
                    IF yearsUsed = 0 THEN NULL ELSE toFixed1Q(sumDaily[d], yearsUsed)])
  IN  [labels |-> [d \in 1..n |-> ClimoLabel(d - 1)],
       avgDaily |-> avgDaily,
       avgCum |-> [d \in 1..n |-> IF yearsUsed = 0 THEN NULL ELSE RunOfDaily(avgDaily, d)],
       yearsUsed |-> yearsUsed, startYear |-> startYear, endYear |-> endYear]

\* ------------------------------------------------------------------------
\* Geometry: the PAR polygon (x = lon, y = lat, tenths of a degree)
\* ------------------------------------------------------------------------
\* The rectangle 5-25 N, 115-135 E (not the code's polygon).
PAR_RECT == << <<1150, 50>>, <<1150, 250>>, <<1350, 250>>, <<1350, 50>> >>

PAR_POLY == << <<1150, 50>>, <<1150, 150>>, <<1200, 210>>,
               <<1200, 250>>, <<1350, 250>>, <<1350, 50>> >>

\* pointOnSegment: on whole tenths the cross and dot products are whole
\* numbers of hundredths, so a tolerance of 1e-9 admits exactly the value 0.
pointOnSegment(x, y, x1, y1, x2, y2) ==
  LET cross == (y - y1) * (x2 - x1) - (x - x1) * (y2 - y1)
      dot == (x - x1) * (x2 - x1) + (y - y1) * (y2 - y1)
      lenSq == (x2 - x1) * (x2 - x1) + (y2 - y1) * (y2 - y1)
  IN  IF cross # 0 THEN FALSE
      ELSE IF dot < 0 THEN FALSE
      ELSE IF dot - lenSq > 0 THEN FALSE
      ELSE TRUE

\* The vertex before vertex i (j = i++ in the loops of insidePAR).
PrevVertex(i) == IF i = 1 THEN Len(PAR_POLY) ELSE i - 1

\* ((yi > y) !== (yj > y)) && (x < ((xj - xi) * (y - yi)) / (yj - yi) + xi)
Intersects(x, y, i) ==
  LET xi == PAR_POLY[i][1]
      yi == PAR_POLY[i][2]
      xj == PAR_POLY[PrevVertex(i)][1]
      yj == PAR_POLY[PrevVertex(i)][2]
  IN  /\ (yi > y) # (yj > y)
      /\ IF yj - yi > 0
         THEN (x - xi) * (yj - yi) < (xj - xi) * (y - yi)
         ELSE (x - xi) * (yj - yi) > (xj - xi) * (y - yi)

\* The parity of the edges the ray crosses.
RayCast(x, y) ==
  Cardinality({i \in 1..Len(PAR_POLY) : Intersects(x, y, i)}) % 2 = 1

\* A boundary test that finds no point on the boundary (not the code's).
NeverOnBoundary(x, y) == FALSE

OnBoundary(x, y) ==
  \E i \in 1..Len(PAR_POLY) :
    pointOnSegment(x, y, PAR_POLY[i][1], PAR_POLY[i][2],
                   PAR_POLY[PrevVertex(i)][1], PAR_POLY[PrevVertex(i)][2])

insidePAR(lat, lon) ==
  IF lat = NULL \/ lon = NULL THEN FALSE
  ELSE IF OnBoundary(lon, lat) THEN TRUE
  ELSE RayCast(lon, lat)

\* ------------------------------------------------------------------------
\* Metrics engine: storm summaries, category days, entries, formation
\* ------------------------------------------------------------------------
\* `if (year && pts[0]?.season !== Number(year)) continue;`
SkipStorm(pts, year) == year # 0 /\ (Len(pts) = 0 \/ pts[1].season # year)

MaxOf(S) == CHOOSE n \in S : \A o \in S : o <= n

MinOf(S) == CHOOSE n \in S : \A o \in S : n <= o

\* round5(p.usaWind ?? 0)
SummaryWind(p) == round5(IF p.usaWind = NULL THEN 0 ELSE p.usaWind)

\* The ACE a fix adds in computeStormSummaries.
SummaryAce(p) ==
  IF isSynopticHour(p.time) /\ SummaryWind(p) >= ACE_THRESHOLD
  THEN aceFromWindKt(SummaryWind(p)) ELSE 0

\* The accumulation of ace in computeStormSummaries, before rounding.
SummaryAceRaw(pts) == SumSeq([i \in 1..Len(pts) |-> SummaryAce(pts[i])])

\* The fixes at synoptic hours alone (not the code's).
SynopticFixes(pts) == {i \in 1..Len(pts) : isSynopticHour(pts[i].time)}

\* The fixes whose wind computeStormSummaries compares with maxWind.
MaxWindFixes(pts) == 1..Len(pts)

\* The time of the last fix inside the region (not the code's).
LastInside(pts) ==
  LET ins == {i \in 1..Len(pts) : insidePAR(pts[i].lat, pts[i].lon)}
  IN  IF ins = {} THEN NULL ELSE pts[MaxOf(ins)].time

\* The time of the first fix inside the region, NULL when there is none.
FirstInside(pts) ==
  LET ins == {i \in 1..Len(pts) : insidePAR(pts[i].lat, pts[i].lon)}
  IN  IF ins = {} THEN NULL ELSE pts[MinOf(ins)].time

StormSummary(id, pts) ==
  LET pres == {pts[i].usaPres : i \in 1..Len(pts)} \ {NULL}
      okPres == {pr \in pres : pr > 0}
  IN  [id |-> id,
       name |-> IF Len(pts) > 0 THEN pts[1].name ELSE "",
       start |-> IF Len(pts) > 0 THEN pts[1].time ELSE NULL,
       end |-> IF Len(pts) > 0 THEN pts[Len(pts)].time ELSE NULL,
       maxWind |-> MaxOf({0} \cup {SummaryWind(pts[i]) : i \in MaxWindFixes(pts)}),
       minPres |-> IF okPres = {} THEN NULL ELSE MinOf(okPres),
       ace |-> toFixed1(SummaryAceRaw(pts)),
       parInDate |-> FirstInside(pts)]

\* out.sort((a, b) => (a.start?.getTime() || 0) - (b.start?.getTime() || 0))
SortByStart(out) ==
  LET keyed == [i \in 1..Len(out) |->
                 [sk |-> IF out[i].start = NULL THEN 0 ELSE out[i].start, item |-> out[i]]]
      sorted == StableSort(keyed)
  IN  [i \in 1..Len(out) |-> sorted[i].item]

computeStormSummaries(sMap, year) ==
  LET kept == SelectSeq(sMap, LAMBDA e : ~SkipStorm(e.val, year))
  IN  SortByStart([i \in 1..Len(kept) |-> StormSummary(kept[i].key, kept[i].val)])

\* The category of the wind rounded to the nearest 5 kt (not the code's).
classifyRounded(w) ==
  IF w = NULL THEN "UNK"
  ELSE IF round5(w) < 34 THEN "TD"
  ELSE IF round5(w) < 48 THEN "TS"
  ELSE IF round5(w) < 64 THEN "STS"
  ELSE IF round5(w) < 130 THEN "TY"
  ELSE "STY"

classify1min(w) ==
  IF w = NULL THEN "UNK"
  ELSE IF w < Kt(34) THEN "TD"
  ELSE IF w < Kt(48) THEN "TS"
  ELSE IF w < Kt(64) THEN "STS"
  ELSE IF w < Kt(130) THEN "TY"
  ELSE "STY"

Categories == {"TD", "TS", "STS", "TY", "STY"}

MsPerHour == 3600000

\* The milliseconds from the last whole hour of a day to its 23:59:59.999.
EodMs == 3599999

\* `+6 h` for the last fix, and the cap on one interval.
LastFixHours == 6
CapHours == 12

\* The end of the day of the cutoff in the cutoff's own year (not the code's).
OwnYearLimit(year, cutoffRefDate) ==
  IF cutoffRefDate = NULL THEN NULL ELSE endOfDayUTC(cutoffRefDate)

\* The limit of computeCategoryDays (its last whole hour), NULL without a cutoff.
CategoryLimit(year, cutoffRefDate) ==
  IF cutoffRefDate = NULL THEN NULL
  ELSE DateUTC(year, getUTCMonth(cutoffRefDate), getUTCDate(cutoffRefDate), 23)

\* An interval left as long as it is (not the code's).
NoCap(dtMs) == dtMs

\* if (dtHrs > 12) dtHrs = 12, in milliseconds.
CapInterval(dtMs) == IF dtMs > CapHours * MsPerHour THEN CapHours * MsPerHour ELSE dtMs

\* The milliseconds fix i of a track adds to its category (0 when the loop
\* takes `continue`).
IntervalMs(pts, i, limit) ==
  LET start == pts[i].time
      end == IF i < Len(pts) THEN pts[i + 1].time ELSE start + LastFixHours
      dtMs == IF limit # NULL /\ end > limit
              THEN (limit - start) * MsPerHour + EodMs
              ELSE (end - start) * MsPerHour
  IN  IF limit # NULL /\ start > limit THEN 0
      ELSE IF dtMs <= 0 THEN 0
      ELSE CapInterval(dtMs)

\* hours[k] after the loops, in milliseconds.
CategoryMs(sMap, year, cutoffRefDate) ==
  LET limit == CategoryLimit(year, cutoffRefDate)
      kept == SelectSeq(sMap, LAMBDA e : ~SkipStorm(e.val, year))
  IN  [k \in Categories |->
        SumSeq([s \in 1..Len(kept) |->
          SumSeq([i \in 1..Len(kept[s].val) |->
            IF classify1min(kept[s].val[i].usaWind) = k
            THEN IntervalMs(kept[s].val, i, limit) ELSE 0])])]

\* Number((hours / 24).toFixed(1)), in tenths of a day.
DaysTenths(ms) == (ms + (12 * MsPerHour) \div 10) \div ((24 * MsPerHour) \div 10)

computeCategoryDays(sMap, year, cutoffRefDate) ==
  LET hours == CategoryMs(sMap, year, cutoffRefDate)
  IN  [k \in Categories |-> DaysTenths(hours[k])]

computePARMonthlyEntries(sMap, year) ==
  LET kept == SelectSeq(sMap, LAMBDA e : ~SkipStorm(e.val, year))
      firstIn == [s \in 1..Len(kept) |-> FirstInside(kept[s].val)]
      counts == [m \in 1..12 |->
                  Cardinality({s \in 1..Len(kept) :
                    firstIn[s] # NULL /\ getUTCMonth(firstIn[s]) = m - 1})]
  IN  [monthly |-> counts,
       total |-> Cardinality({s \in 1..Len(kept) : firstIn[s] # NULL})]

computeStormsFormedByMonth(sMap, year) ==
  LET kept == SelectSeq(sMap, LAMBDA e : ~SkipStorm(e.val, year) /\ Len(e.val) > 0)
  IN  [m \in 1..12 |->
        Cardinality({s \in 1..Len(kept) : getUTCMonth(kept[s].val[1].time) = m - 1})]

\* ------------------------------------------------------------------------
\* Bulletin fetch: the files the remote mirror serves are [num, lines] records
\* ------------------------------------------------------------------------
\* The storms left in the order their tasks pushed them (not the code's).
CompletionOrder(storms) == storms

\* storms.sort((a, b) => a.num - b.num)
SortByNum(storms) ==
  LET keyed == [i \in 1..Len(storms) |-> [sk |-> storms[i].num, item |-> storms[i]]]
      sorted == StableSort(keyed)
  IN  [i \in 1..Len(storms) |-> sorted[i].item]

\* The storms fetchActiveBDecks returns when every file of dks is fetched:
\* a storm is pushed when it has points.
fetchActiveBDecks(dks, year) ==
  LET parsed == [i \in 1..Len(dks) |-> parseBDeckText(dks[i].lines, dks[i].num, year)]
  IN  SortByNum(SelectSeq(parsed, LAMBDA st : Len(st.points) > 0))

\* ------------------------------------------------------------------------
\* API routes: helpers used for the bulletins (api.js keeps its own copies)
\* ------------------------------------------------------------------------
isSynoptic(d) == getUTCHours(d) \in VALID_HOURS

round5_api(w) == IF w = NULL THEN NULL ELSE ((w + 5) \div 10) * 5

aceFromWindKt_api(v) == v * v

endOfDayUTC_api(d) == DateUTC(getUTCFullYear(d), getUTCMonth(d), getUTCDate(d), 23)

\* const w = round5(p.wind); if (w != null && w >= 35) ... aceFromWindKt(w)
BDeckAce(wind) ==
  LET w == round5_api(wind)
  IN  IF w # NULL /\ w >= 35 THEN aceFromWindKt_api(w) ELSE 0

\* The points of the storms of bs that are not invests, in loop order.
RECURSIVE PointsFrom(_, _)
PointsFrom(bs, i) ==
  IF i > Len(bs) THEN <<>>
  ELSE IF isInvest(bs[i].num) THEN PointsFrom(bs, i + 1)
  ELSE bs[i].points \o PointsFrom(bs, i + 1)

PointsOf(bs) == PointsFrom(bs, 1)

\* monthlyRaw and totalRaw of monthlyAceFromBDecks.
MonthlyRawFromBDecks(bs, cutoff) ==
  LET limit == IF cutoff # NULL THEN endOfDayUTC_api(cutoff) ELSE NULL
      pts == PointsOf(bs)
      Counts(p) == /\ ~(limit # NULL /\ p.t > limit)
                   /\ isSynoptic(p.t)
  IN  [monthlyRaw |-> [m \in 1..12 |->
         SumSeq([i \in 1..Len(pts) |->
           IF Counts(pts[i]) /\ getUTCMonth(pts[i].t) = m - 1
           THEN BDeckAce(pts[i].wind) ELSE 0])],
       totalRaw |-> SumSeq([i \in 1..Len(pts) |->
           IF Counts(pts[i]) THEN BDeckAce(pts[i].wind) ELSE 0])]

monthlyAceFromBDecks(bs, cutoff) ==
  LET acc == MonthlyRawFromBDecks(bs, cutoff)
  IN  [monthly |-> [m \in 1..12 |-> toFixed1(acc.monthlyRaw[m])],
       total |-> toFixed1(acc.totalRaw)]

\* monthly[] and total of aceYTDFromBDecks, before rounding.
YTDRawFromBDecks(bs, cutoffDate) ==
  LET limit == endOfDayUTC_api(cutoffDate)
      pts == PointsOf(bs)
      Counts(p) == ~(p.t > limit) /\ isSynoptic(p.t)
  IN  [monthly |-> [m \in 1..12 |->
         SumSeq([i \in 1..Len(pts) |->
           IF Counts(pts[i]) /\ getUTCMonth(pts[i].t) = m - 1
           THEN BDeckAce(pts[i].wind) ELSE 0])],
       total |-> SumSeq([i \in 1..Len(pts) |->
           IF Counts(pts[i]) THEN BDeckAce(pts[i].wind) ELSE 0])]

aceYTDFromBDecks(bs, cutoffDate) ==
  LET acc == YTDRawFromBDecks(bs, cutoffDate)
  IN  [total |-> toFixed1(acc.total),
       cum |-> [m \in 1..12 |-> toFixed1(SumTo(acc.monthly, m))]]

\* daily[] of dailyFromBDecks after the loop over the storms, before rounding.
DailyRawFromBDecks(bs, endDate) ==
  LET limit == endOfDayUTC_api(endDate)
      year == getUTCFullYear(endDate)
      nDays == DailyLength(year, endDate)
      pts == PointsOf(bs)
      counts == Array([i \in 1..Len(pts) |-> ~(pts[i].t > limit) /\ isSynoptic(pts[i].t)])
      di == Array([i \in 1..Len(pts) |-> DayOf(pts[i].t) - DayOf(DateUTC(year, 0, 1, 0))])
      ace == Array([i \in 1..Len(pts) |-> BDeckAce(pts[i].wind)])
  IN  Array([d \in 1..nDays |->
        SumSeq([i \in 1..Len(pts) |->
          IF counts[i] /\ di[i] = d - 1 THEN ace[i] ELSE 0])])

dailyFromBDecks(bs, endDate) ==
  DailySeries(DailyRawFromBDecks(bs, endDate), getUTCFullYear(endDate))

\* The ace of one storm in GET /current/bdecks, before rounding:
\* `if (w >= 35) ace += (w * w) / 10000.0` at the hours 0, 6, 12, 18.
CurrentBDeckAceRaw(points) ==
  SumSeq([i \in 1..Len(points) |->
    LET hr == getUTCHours(points[i].t)
        w == round5_api(points[i].wind)
    IN  IF hr # 0 /\ hr # 6 /\ hr # 12 /\ hr # 18 THEN 0
        ELSE IF w # NULL /\ w >= 35 THEN w * w ELSE 0])

\* ------------------------------------------------------------------------
\* API routes: the archive cache
\* ------------------------------------------------------------------------
\* let cache = { mtimeMs: 0, rows: null, allMap: null, yearMaps: new Map() }
\* (hasRows is FALSE while rows is null).
EmptyCache ==
  [mtimeMs |-> 0, hasRows |-> FALSE, rows |-> <<>>, allMap |-> <<>>, yearMaps |-> <<>>]

\* A load that adds the file's rows to the rows already cached (not the
\* code's).
AppendRows(c, content) == c.rows \o filterWP(loadIBTrACS(content))

\* The rows a load leaves in the cache.
LoadRows(c, content) == filterWP(loadIBTrACS(content))

\* A load that keeps the per-year maps of the rows before it (not the code's).
LoadKeepingYearMaps(c, content, mt) ==
  LET loaded == LoadRows(c, content)
  IN  [mtimeMs |-> mt, hasRows |-> TRUE, rows |-> loaded,
       allMap |-> groupByStorm(loaded, 0), yearMaps |-> c.yearMaps]

\* The body of the `if` of ensureLoaded: the cache after a load of the file.
LoadStore(c, content, mt) ==
  LET loaded == LoadRows(c, content)
  IN  [mtimeMs |-> mt, hasRows |-> TRUE, rows |-> loaded,
       allMap |-> groupByStorm(loaded, 0), yearMaps |-> <<>>]

\* A condition that loads the file at every call (not the code's).
AlwaysLoad(c, force, mt) == TRUE

\* if (force || !cache.rows || st.mtimeMs !== cache.mtimeMs)
MustLoad(c, force, mt) == force \/ ~c.hasRows \/ mt # c.mtimeMs

\* The cache after ensureLoaded(force), the file holding content at mtime mt.
ensureLoaded(c, force, content, mt) ==
  IF MustLoad(c, force, mt) THEN LoadStore(c, content, mt) ELSE c

\* A failed load that has stamped the cache with the file's modification
\* time before it read the file (not the code's).
StampedBeforeLoad(c, mt) == [c EXCEPT !.mtimeMs = mt]

\* The cache after an ensureLoaded that threw: fs.statSync throws before the
\* test, loadIBTrACS inside the initialiser of `rows`, before the first
\* assignment to the cache.
FailedLoad(c, mt) == c

\* The history after ensureLoaded(force): a load is counted, forced or not,
\* and its file content remembered.
NoHist == [content |-> <<>>, loads |-> 0, forced |-> 0]

History(h, c, force, content, mt) ==
  IF MustLoad(c, force, mt)
  THEN [content |-> content, loads |-> h.loads + 1,
        forced |-> IF force THEN h.forced + 1 ELSE h.forced]
  ELSE h

\* The cache after mapForYear(year); the map returned is MapGet(yearMaps, year).
withYearMap(c1, year) ==
  IF MapHas(c1.yearMaps, year) THEN c1
  ELSE [c1 EXCEPT !.yearMaps = Append(@, [key |-> year, val |-> groupByStorm(c1.rows, year)])]

mapForYear(c, year, content, mt) == withYearMap(ensureLoaded(c, FALSE, content, mt), year)

\* ------------------------------------------------------------------------
\* API routes: GET /summary
\* ------------------------------------------------------------------------
\* Defaults of base_start and base_end (1950 and 2024 in the code: the first
\* and the last year of the archive).
BaseStart == EpochYear
BaseEnd == ArchiveYear

\* The baseline years whose map is not empty (`if (!m.size) continue`).
CatBaselineYears(rws, baseStart, baseEnd) ==
  SelectSeq(YearsOf(baseStart, baseEnd), LAMBDA y : Len(groupByStorm(rws, y)) > 0)

\* The cutoff handed to computeCategoryDays for a baseline year.
CatClimoCutoff(cutoff) == NULL

\* Number((sums.K / yearsUsed).toFixed(1)) of a sum of tenths of a day; the
\* quotient by zero years is NaN, which JSON shows as null.
AvgTenths(sum, n) == IF n = 0 THEN NULL ELSE (2 * sum + n) \div (2 * n)

categoryDaysClimo(rws, baseStart, baseEnd, cutoff) ==
  LET ys == CatBaselineYears(rws, baseStart, baseEnd)
      d == [i \in 1..Len(ys) |->
             computeCategoryDays(groupByStorm(rws, ys[i]), ys[i], CatClimoCutoff(cutoff))]
      sums == [k \in Categories |-> SumSeq([i \in 1..Len(ys) |-> d[i][k]])]
  IN  [average |-> [k \in Categories |-> AvgTenths(sums[k], Len(ys))],
       baseline |-> [start |-> baseStart, end |-> baseEnd, years |-> Len(ys)]]

\* monthlyAce.reduce((a, b) => a + b, 0).toFixed(1): the monthly values are
\* tenths already.
TotalOfMonthly(monthlyAce) == SumSeq(monthlyAce)

\* The body of the response on the bulletin path (year >= 2025).
SummaryFromBDecks(c, dks, year, cutoff) ==
  LET bs == SelectSeq(fetchActiveBDecks(dks, year), LAMBDA st : ~isInvest(st.num))
      sm == bdeckToStormMap(bs)
      acc == monthlyAceFromBDecks(bs, cutoff)
  IN  [op |-> "summary", year |-> year,
       ace |-> [total |-> acc.total, monthly |-> acc.monthly],
       categoryDays |-> computeCategoryDays(sm, year, cutoff),
       categoryDaysClimo |-> categoryDaysClimo(c.rows, BaseStart, BaseEnd, cutoff),
       par |-> computePARMonthlyEntries(sm, year),
       stormsByMonth |-> computeStormsFormedByMonth(sm, year),
       storms |-> computeStormSummaries(sm, year)]

\* The body of the response on the archive path; c is the cache after
\* mapForYear(year).
SummaryFromArchive(c, year, cutoff) ==
  LET sm == MapGet(c.yearMaps, year)
      monthlyAce == computeACEByMonth(c.rows, year, cutoff)
  IN  [op |-> "summary", year |-> year,
       ace |-> [total |-> TotalOfMonthly(monthlyAce), monthly |-> monthlyAce],
       categoryDays |-> computeCategoryDays(sm, year, cutoff),
       categoryDaysClimo |-> categoryDaysClimo(c.rows, BaseStart, BaseEnd, cutoff),
       par |-> computePARMonthlyEntries(sm, year),
       stormsByMonth |-> computeStormsFormedByMonth(sm, year),
       storms |-> computeStormSummaries(sm, year)]

\* ------------------------------------------------------------------------
\* API routes: GET /ace/daily
\* ------------------------------------------------------------------------
\* The body of the response; c is the cache after ensureLoaded().
\* res.json({...}) of the route, from the climatology and the current series.
AceDailyBody(year, endDate, climo, current) ==
  [op |-> "ace/daily", year |-> year, asOf |-> IsoDate(endDate),
   baseline |-> [start |-> BaseStart, end |-> BaseEnd, years |-> climo.yearsUsed],
   labels |-> current.labels,
   current |-> [daily |-> current.daily, cum |-> current.cum, total |-> current.total],
   average |-> [daily |-> climo.avgDaily, cum |-> climo.avgCum]]

AceDailyResponse(c, dks, year, endDate) ==
  AceDailyBody(year, endDate,
    computeACEDailyClimo(c.rows, getUTCMonth(endDate), getUTCDate(endDate),
                         BaseStart, BaseEnd),
    IF year >= BulletinYear
    THEN dailyFromBDecks(
           SelectSeq(fetchActiveBDecks(dks, year), LAMBDA st : ~isInvest(st.num)), endDate)
    ELSE computeACEDaily(c.rows, year, endDate))

\* ------------------------------------------------------------------------
\* API routes: GET /ace/cutoff
\* ------------------------------------------------------------------------
\* Number(((total / average) * 100).toFixed(0)) of two amounts in tenths,
\* null when the average is not positive.
PctOfAverage(total, average) ==
  IF average # NULL /\ average > 0 THEN (200 * total + average) \div (2 * average) ELSE NULL

\* The body of the response; c is the cache after ensureLoaded().
\* res.json({...}) of the route, from the climatology, the current total
\* and the current cumulative months.
AceCutoffBody(year, cutoff, climo, current, currentCum) ==
  [op |-> "ace/cutoff", year |-> year, asOf |-> IsoDate(cutoff),
   baseline |-> [start |-> BaseStart, end |-> BaseEnd, years |-> climo.yearsUsed],
   current |-> current,
   average |-> climo.average,
   pctOfAverage |-> PctOfAverage(current, climo.average),
   monthly |-> [currentCum |-> currentCum, averageCum |-> climo.avgCumMonthly]]

\* The current total and cumulative months: of the bulletins' storms that
\* are not invests, or of the archive rows.
AceCutoffCurrent(c, dks, year, cutoff) ==
  IF year >= BulletinYear
  THEN aceYTDFromBDecks(
         SelectSeq(fetchActiveBDecks(dks, year), LAMBDA st : ~isInvest(st.num)), cutoff)
  ELSE [total |-> computeACEYTD(c.rows, year, cutoff),
        cum |-> computeACEYTDMonthlyCum(c.rows, year, cutoff)]

AceCutoffTotals(year, cutoff, climo, ytd) ==
  AceCutoffBody(year, cutoff, climo, ytd.total, ytd.cum)

AceCutoffResponse(c, dks, year, cutoff) ==
  AceCutoffTotals(year, cutoff,
    computeACEYTDClimo(c.rows, getUTCMonth(cutoff), getUTCDate(cutoff), BaseStart, BaseEnd),
    AceCutoffCurrent(c, dks, year, cutoff))

\* ------------------------------------------------------------------------
\* API routes: GET /storms, GET /storms/:id/track, GET /current/bdecks
\* ------------------------------------------------------------------------
\* The files fetchActiveBDecks(year, max) asks the mirror for: bwp01..bwp{max}.
Probed(dks, max) == SelectSeq(dks, LAMBDA f : 1 <= f.num /\ f.num <= max)

\* The body of the response of GET /storms; c is the cache after
\* mapForYear(year) on the archive path.
StormsResponse(c, dks, year) ==
  LET bs == SelectSeq(fetchActiveBDecks(Probed(dks, DefaultMax), year),
                      LAMBDA st : ~isInvest(st.num))
      storms == IF year >= BulletinYear
                THEN computeStormSummaries(bdeckToStormMap(bs), year)
                ELSE computeStormSummaries(MapGet(c.yearMaps, year), year)
  IN  [op |-> "storms", year |-> year, count |-> Len(storms), storms |-> storms]

\* The body of the response of GET /storms/:id/track; c is the cache after
\* ensureLoaded() when the bulletins do not have the id.
TrackResponse(c, dks, year, id) ==
  LET bs == fetchActiveBDecks(Probed(dks, DefaultMax), year)
      found == {k \in 1..Len(bs) : bs[k].id = id}
      pts == IF MapHas(c.allMap, id) THEN MapGet(c.allMap, id) ELSE <<>>
      filtered == IF year # 0 THEN SelectSeq(pts, LAMBDA q : q.season = year) ELSE pts
  IN  [op |-> "track", id |-> id, year |-> year,
       points |-> IF year >= BulletinYear /\ found # {}
                  THEN bs[MinOf(found)].points
                  ELSE [k \in 1..Len(filtered) |->
                         [t |-> filtered[k].time, lat |-> filtered[k].lat,
                          lon |-> filtered[k].lon, wind |-> filtered[k].usaWind,
                          pres |-> filtered[k].usaPres]]]

\* Math.min(Math.max(Number(req.query.max || 60), 1), 99)
ClampMax(q) ==
  LET lo == IF q = NULL THEN DefaultMax ELSE IF q < 1 THEN 1 ELSE q
  IN  IF lo > MaxStormNum THEN MaxStormNum ELSE lo

\* The body of the response of GET /current/bdecks.
CurrentBDecksResponse(dks, year, max) ==
  LET data == SelectSeq(fetchActiveBDecks(Probed(dks, max), year),
                        LAMBDA st : ~isInvest(st.num))
  IN  [op |-> "current/bdecks", year |-> year,
       storms |-> [k \in 1..Len(data) |->
         [id |-> data[k].id, num |-> data[k].num, year |-> data[k].year,
          ace |-> toFixed1(CurrentBDeckAceRaw(data[k].points)),
          points |-> data[k].points]]]

\* ------------------------------------------------------------------------
\* State
\* ------------------------------------------------------------------------
VARIABLES
  raw,       \* the rows of the archive file, as sheet_to_json returns them
  rows,      \* the rows loadIBTrACS returned
  text,      \* the lines of one bulletin file
  bstorms,   \* the storms fetchActiveBDecks collected
  stormMap,  \* the tracks handed to the metrics engine
  stage,     \* how far the pipeline has come
  mtime,     \* the modification time of the archive file
  cache,     \* the archive cache of the API routes
  hist,      \* history: the content of the file at the last load, the loads and the forced loads so far
  decks,     \* the bulletin files the remote mirror serves
  arg,       \* the arguments of the last request or call
  resp,      \* the last response or result
  fetch      \* fetchActiveBDecks in progress: its loop position and its tasks

tracksVars == <<raw, rows, text, bstorms, stormMap, stage>>

apiVars == <<mtime, cache, hist, decks, arg, resp, fetch>>

vars == <<tracksVars, apiVars>>

\* The values of the variables a specification does not use.
NoArg == [op |-> "none"]
NoResp == [op |-> "none"]
NoFetch == [stage |-> "idle"]

IdleTracks ==
  /\ raw = <<>> /\ rows = <<>> /\ text = <<>>
  /\ bstorms = <<>> /\ stormMap = <<>> /\ stage = "idle"

IdleApi ==
  /\ mtime = 0 /\ cache = EmptyCache /\ hist = NoHist
  /\ decks = <<>> /\ arg = NoArg /\ resp = NoResp /\ fetch = NoFetch

\* ------------------------------------------------------------------------
\* Inputs of the track pipelines
\* ------------------------------------------------------------------------
RawRow(name, t, atcf, sid, wind) ==
  [SEASON |-> ArchiveYear, BASIN |-> "WP", NATURE |-> "TS", ISO_TIME |-> t,
   NAME |-> name, USA_ATCF_ID |-> atcf, SID |-> sid, USA_WIND |-> wind,
   USA_PRES |-> 990, USA_LAT |-> 150, USA_LON |-> 1300]

\* Winds of the archive rows and bulletin lines.
W30 == Kt(30)
W50 == Kt(50)

\* Hours of the archive's fixes: 24 h and 25 h apart, and one repeated hour.
T1 == DateUTC(ArchiveYear, 7, 1, 0)
T2 == DateUTC(ArchiveYear, 7, 2, 0)
T3 == DateUTC(ArchiveYear, 7, 3, 1)

RowTimes == {T1, T2, T3}

RawRows ==
  {RawRow("", t, "", sid, W50) : t \in RowTimes, sid \in {"", "SID2"}}
  \cup {RawRow("ALICE", t, id[1], id[2], W50) : t \in {T1, T2}, id \in {<<"WP01", "">>, <<"", "SID2">>}}
  \cup {RawRow("ALICE", T3, "", "", W50),
        RawRow("alice", T1, "", "SID2", W30),
        RawRow("", T1, "WP01", "SID2", W30),
        [RawRow("", T1, "WP01", "", W50) EXCEPT !.BASIN = "EP"],
        [RawRow("ALICE", T1, "WP01", "", W50) EXCEPT !.NATURE = "ET"],
        RawRow("ALICE", NULL, "WP01", "", W50),
        [RawRow("ALICE", DateUTC(EpochYear, 7, 1, 0), "WP01", "", W50) EXCEPT !.SEASON = EpochYear]}

SeqsUpTo(S, n) == UNION {[1..k -> S] : k \in 0..n}

Ymdh(y, mo, d, h) == [digits10 |-> TRUE, y |-> y, mo |-> mo, d |-> d, h |-> h]

BLine(ymdh, latS, wind) ==
  [basin |-> "WP", ymdh |-> ymdh, latS |-> latS,
   lonS |-> [digits |-> 1276, ndig |-> 4, hemi |-> "E"], wind |-> wind, pres |-> 990]

BLines ==
  {BLine(ts, la, w) :
     ts \in {Ymdh(BulletinYear, 8, 19, 6), Ymdh(BulletinYear, 8, 19, 12),
             [Ymdh(BulletinYear, 8, 19, 6) EXCEPT !.digits10 = FALSE]},
     la \in {[digits |-> 272, ndig |-> 3, hemi |-> "N"], [digits |-> 5, ndig |-> 1, hemi |-> "N"]},
     w \in {W30, W50}}
  \cup {[BLine(Ymdh(BulletinYear, 8, 19, 6), [digits |-> 272, ndig |-> 3, hemi |-> "N"], W50)
          EXCEPT !.basin = "EP"]}

StormNums == {1, 2, InvestLo}

\* ------------------------------------------------------------------------
\* The track pipelines: archive file -> loadIBTrACS -> groupByStorm, and
\* bulletin file -> parseBDeckText -> bdeckToStormMap
\* ------------------------------------------------------------------------
InitTracks ==
  /\ IdleApi
  /\ rows = <<>>
  /\ bstorms = <<>>
  /\ stormMap = <<>>
  /\ \/ stage = "file" /\ raw \in SeqsUpTo(RawRows, MaxRows) /\ text = <<>>
     \/ stage = "text" /\ text \in SeqsUpTo(BLines, MaxLines) /\ raw = <<>>

\* cache.rows = filterWP(loadIBTrACS(cache.filePath))
LoadArchive ==
  /\ stage = "file"
  /\ rows' = filterWP(loadIBTrACS(raw))
  /\ stage' = "loaded"
  /\ UNCHANGED <<raw, text, bstorms, stormMap, apiVars>>

\* groupByStorm(cache.rows) and groupByStorm(cache.rows, y)
GroupArchive(year) ==
  /\ stage = "loaded"
  /\ stormMap' = groupByStorm(rows, year)
  /\ stage' = "grouped"
  /\ UNCHANGED <<raw, rows, text, bstorms, apiVars>>

\* One task of fetchActiveBDecks whose fetch succeeded: the storm is kept
\* when it has points.
ParseBulletin(num) ==
  /\ stage = "text"
  /\ LET storm == parseBDeckText(text, num, BulletinYear)
     IN  bstorms' = IF Len(storm.points) > 0 THEN <<storm>> ELSE <<>>
  /\ stage' = "parsed"
  /\ UNCHANGED <<raw, rows, text, stormMap, apiVars>>

\* bdeckToStormMap over the storms a handler kept
MapBulletin ==
  /\ stage = "parsed"
  /\ stormMap' = bdeckToStormMap(SelectSeq(bstorms, LAMBDA s : ~isInvest(s.num)))
  /\ stage' = "mapped"
  /\ UNCHANGED <<raw, rows, text, bstorms, apiVars>>

NextTracks ==
  \/ LoadArchive
  \/ \E year \in {0, ArchiveYear} : GroupArchive(year)
  \/ \E num \in StormNums : ParseBulletin(num)
  \/ MapBulletin

SpecTracks == InitTracks /\ [][NextTracks]_vars

\* ------------------------------------------------------------------------
\* Claims about the tracks
\* ------------------------------------------------------------------------
StrictlyAscending(pts) == \A j \in 1..(Len(pts) - 1) : pts[j].time < pts[j + 1].time

\* C1: in every track handed to the metrics engine, by groupByStorm or by
\* bdeckToStormMap, the fixes of one storm are in strictly ascending time
\* order (no two fixes of a storm at the same instant).
C1_TracksStrictlyAscending ==
  stage \in {"grouped", "mapped"} =>
    \A i \in 1..Len(stormMap) : StrictlyAscending(stormMap[i].val)

\* The archive half of C1 alone.
C1_ArchiveTracksStrictlyAscending ==
  stage = "grouped" => \A i \in 1..Len(stormMap) : StrictlyAscending(stormMap[i].val)

\* The rows of the file that pass the filters, and the name/season groups.
InputRows == BasicNormalization(raw)

InputKeys == {GroupKey(InputRows[i]) : i \in 1..Len(InputRows)}

InputGroup(key) == SelectSeq(InputRows, LAMBDA r : GroupKey(r) = key)

\* The loaded rows of one name/season group, in the order of the output.
LoadedGroup(key) == SelectSeq(rows, LAMBDA r : GroupKey(r) = key)

\* A group without a canonical id: unnamed, or no row carries an identifier.
Unresolved(key) ==
  key[1] = "UNNAMED" \/ \A i \in 1..Len(InputGroup(key)) : InputGroup(key)[i].stormId = NoId

\* C3: two time-consecutive fixes of an unnamed (or unresolved) group end up
\* with distinct storm ids when more than 24 h apart and with the same storm
\* id when at most 24 h apart, whatever identifiers the rows carry.
C3_GapDecidesIdentity ==
  stage = "loaded" =>
    \A key \in InputKeys : Unresolved(key) =>
      LET g == LoadedGroup(key)
      IN  \A i \in 1..(Len(g) - 1) :
            IF g[i + 1].time - g[i].time > 24
            THEN g[i].stormId # g[i + 1].stormId
            ELSE g[i].stormId = g[i + 1].stormId

\* The identifiers the rows of a list carry, and how often each occurs.
IdsOf(list) == {list[i].stormId : i \in 1..Len(list)} \ {NoId}

IdCount(list, id) == Cardinality({i \in 1..Len(list) : list[i].stormId = id})

\* The first place of an identifier in the list as it stands.
FirstRow(list, id) ==
  CHOOSE i \in 1..Len(list) :
    list[i].stormId = id /\ \A j \in 1..(i - 1) : list[j].stormId # id

\* The place of row i when the list is ordered by time, rows of one instant
\* in the order of the list.
TimeRank(list, i) ==
  Cardinality({j \in 1..Len(list) :
     list[j].time < list[i].time \/ (list[j].time = list[i].time /\ j < i)})

FirstInTime(list, id) ==
  CHOOSE n \in 0..Len(list) :
    /\ \E i \in 1..Len(list) : list[i].stormId = id /\ TimeRank(list, i) = n
    /\ \A i \in 1..Len(list) : list[i].stormId = id => TimeRank(list, i) >= n

\* The rows of a list that lie in the segment of instant t: no two
\* neighbouring instants of the list between them and t are more than
\* GapHours apart.
TimesOf(list) == {list[i].time : i \in 1..Len(list)}

Neighbours(list, u, v) == u < v /\ ~\E w \in TimesOf(list) : u < w /\ w < v

SameSegment(list, s, t) ==
  LET lo == IF s < t THEN s ELSE t
      hi == IF s < t THEN t ELSE s
  IN  \A u, v \in TimesOf(list) :
        (lo <= u /\ v <= hi /\ Neighbours(list, u, v)) => v - u <= 24

\* The external identifier met first, in time order, in the segment of t;
\* NoId when no row of the segment carries one.
FirstExtIn(list, t) ==
  LET cand == {i \in 1..Len(list) :
                 list[i].stormId # NoId /\ SameSegment(list, list[i].time, t)}
  IN  IF cand = {} THEN NoId
      ELSE list[CHOOSE i \in cand : \A j \in cand : TimeRank(list, i) <= TimeRank(list, j)].stormId

\* C3 (amended): two time-consecutive fixes of an unnamed (or unresolved)
\* group end up with the same storm id when at most 24 h apart, whatever
\* identifiers the rows carry; when more than 24 h apart they end up with
\* distinct storm ids unless the segments of both carry an external
\* identifier and the first one met in each segment is the same.
C3_GapDecidesIdentityUnlessSharedId ==
  stage = "loaded" =>
    \A key \in InputKeys : Unresolved(key) =>
      LET g == LoadedGroup(key)
          in == InputGroup(key)
      IN  \A i \in 1..(Len(g) - 1) :
            IF g[i + 1].time - g[i].time > 24
            THEN (g[i].stormId = g[i + 1].stormId) <=>
                   (/\ FirstExtIn(in, g[i].time) # NoId
                    /\ FirstExtIn(in, g[i].time) = FirstExtIn(in, g[i + 1].time))
            ELSE g[i].stormId = g[i + 1].stormId

\* A loaded unnamed group with two fixes 24 h apart under one id and two
\* fixes 25 h apart under two ids, one of the rows carrying an identifier.
C3_Witness ==
  /\ stage = "loaded"
  /\ \E key \in InputKeys :
       /\ key[1] = "UNNAMED"
       /\ IdsOf(InputGroup(key)) # {}
       /\ LET g == LoadedGroup(key)
          IN  /\ \E i \in 1..(Len(g) - 1) :
                   g[i + 1].time - g[i].time = 24 /\ g[i].stormId = g[i + 1].stormId
              /\ \E i \in 1..(Len(g) - 1) :
                   g[i + 1].time - g[i].time = 25 /\ g[i].stormId # g[i + 1].stormId

\* Majority vote, ties to the identifier met first in the row sequence.
WinnerByRowOrder(list) ==
  CHOOSE id \in IdsOf(list) : \A o \in IdsOf(list) \ {id} :
    \/ IdCount(list, id) > IdCount(list, o)
    \/ IdCount(list, id) = IdCount(list, o) /\ FirstRow(list, id) < FirstRow(list, o)

\* Majority vote, ties to the identifier of the earliest fix.
WinnerByTimeOrder(list) ==
  CHOOSE id \in IdsOf(list) : \A o \in IdsOf(list) \ {id} :
    \/ IdCount(list, id) > IdCount(list, o)
    \/ IdCount(list, id) = IdCount(list, o) /\ FirstInTime(list, id) < FirstInTime(list, o)

NamedWithId(key) == key[1] # "UNNAMED" /\ IdsOf(InputGroup(key)) # {}

\* C4 (as claimed): every fix of a named group in which a row carries an
\* identifier receives the most frequent identifier, ties going to the one
\* met first in the original row sequence of the archive.
C4_MajorityTiesByRowOrder ==
  stage = "loaded" =>
    \A key \in InputKeys : NamedWithId(key) =>
      \A i \in 1..Len(LoadedGroup(key)) :
        LoadedGroup(key)[i].stormId = WinnerByRowOrder(InputGroup(key))

\* C4 (amended): every fix of such a group receives the most frequent
\* identifier, ties going to the identifier carried by the earliest fix of
\* the group (fixes of one instant in row order).
C4_MajorityTiesByTimeOrder ==
  stage = "loaded" =>
    \A key \in InputKeys : NamedWithId(key) =>
      \A i \in 1..Len(LoadedGroup(key)) :
        LoadedGroup(key)[i].stormId = WinnerByTimeOrder(InputGroup(key))

\* A loaded named group whose vote is tied between two identifiers, the
\* later row being the earlier fix.
C4_Witness ==
  /\ stage = "loaded"
  /\ \E key \in InputKeys :
       /\ NamedWithId(key)
       /\ Len(LoadedGroup(key)) >= 2
       /\ WinnerByRowOrder(InputGroup(key)) # WinnerByTimeOrder(InputGroup(key))
       /\ \E a, b \in IdsOf(InputGroup(key)) :
            a # b /\ IdCount(InputGroup(key), a) = IdCount(InputGroup(key), b)


\* ------------------------------------------------------------------------
\* The season summary: GET /summary over an archive file and a bulletin mirror
\* ------------------------------------------------------------------------
W40 == Kt(40)

\* Two synoptic hours in different months and one hour that is not synoptic.
S1(y) == DateUTC(y, 7, 31, 18)
S2(y) == DateUTC(y, 8, 1, 0)
S3(y) == DateUTC(y, 8, 1, 3)

SummaryRows ==
  {RawRow("ALICE", t, "WP01", "", w) :
     t \in {S1(ArchiveYear), S2(ArchiveYear), S3(ArchiveYear)}, w \in {W30, W40}}

SummaryLines ==
  {BLine(ts, [digits |-> 150, ndig |-> 3, hemi |-> "N"], w) :
     ts \in {Ymdh(BulletinYear, 8, 31, 18), Ymdh(BulletinYear, 9, 1, 0), Ymdh(BulletinYear, 9, 1, 3)},
     w \in {W30, W40}}

\* The cutoffs of the requests: none, or the last day of August.
SummaryCutoffs == {NULL, DateUTC(ArchiveYear, 7, 31, 0), DateUTC(BulletinYear, 7, 31, 0)}

InitSummary ==
  /\ rows = <<>> /\ text = <<>> /\ bstorms = <<>> /\ stormMap = <<>> /\ stage = "idle"
  /\ mtime = 1
  /\ cache = EmptyCache
  /\ hist = NoHist
  /\ arg = NoArg
  /\ resp = NoResp
  /\ fetch = NoFetch
  /\ \/ raw \in SeqsUpTo(SummaryRows, MaxFixes) /\ decks = <<>>
     \/ /\ raw = <<>>
        /\ \E num \in {1, InvestLo} :
             \E ls \in SeqsUpTo(SummaryLines, MaxFixes) \ {<<>>} :
               decks = <<[num |-> num, lines |-> ls]>>

\* router.get('/summary', ...)
Summary(year, cutoff) ==
  LET c1 == ensureLoaded(cache, FALSE, raw, mtime)
      c2 == IF year >= BulletinYear THEN c1 ELSE mapForYear(c1, year, raw, mtime)
  IN  /\ cache' = c2
      /\ hist' = History(hist, cache, FALSE, raw, mtime)
      /\ arg' = [op |-> "summary", year |-> year, cutoff |-> cutoff]
      /\ resp' = IF year >= BulletinYear
                 THEN SummaryFromBDecks(c1, decks, year, cutoff)
                 ELSE SummaryFromArchive(c2, year, cutoff)
      /\ UNCHANGED <<tracksVars, mtime, decks, fetch>>

NextSummary ==
  \E year \in {ArchiveYear, BulletinYear} : \E cutoff \in SummaryCutoffs : Summary(year, cutoff)

SpecSummary == InitSummary /\ [][NextSummary]_vars


\* The full-precision sum of the ACE of the fixes the season summary of the
\* last request counts: the fixes of the season not after the end of the
\* cutoff day, from the archive rows or from the bulletins' storms that are
\* not invests.
SeasonAceSum ==
  LET limit == IF arg.cutoff # NULL THEN endOfDayUTC(arg.cutoff) ELSE NULL
      Within(t) == limit = NULL \/ t <= limit
      pts == PointsOf(fetchActiveBDecks(decks, arg.year))
      rws == SelectSeq(cache.rows, LAMBDA r : r.season = arg.year)
  IN  IF arg.year >= BulletinYear
      THEN SumSeq([i \in 1..Len(pts) |->
             IF Within(pts[i].t) /\ isSynopticHour(pts[i].t) THEN WindAce(pts[i].wind) ELSE 0])
      ELSE SumSeq([i \in 1..Len(rws) |->
             IF Within(rws[i].time) /\ isSynopticHour(rws[i].time) THEN WindAce(rws[i].usaWind) ELSE 0])

\* C2: on both paths the ace.total of the season summary is the
\* full-precision sum of the qualifying per-fix contributions, rounded once
\* to one decimal.
C2_SeasonTotalRoundedOnce ==
  resp.op = "summary" => resp.ace.total = toFixed1(SeasonAceSum)

\* C2, bulletin path alone: the total is rounded once from the full-precision
\* sum.
C2_BulletinTotalRoundedOnce ==
  (resp.op = "summary" /\ arg.year >= BulletinYear) => resp.ace.total = toFixed1(SeasonAceSum)

\* C2, archive path: the total is the sum of the twelve rounded monthly values.
C2_ArchiveTotalIsSumOfRounded ==
  (resp.op = "summary" /\ arg.year < BulletinYear) => resp.ace.total = SumSeq(resp.ace.monthly)

\* C2: a summary whose rounded monthly values do not add up to the rounded
\* full-precision sum, on each path.
C2_ArchiveRoundingCase ==
  /\ resp.op = "summary" /\ arg.year < BulletinYear
  /\ SumSeq(resp.ace.monthly) # toFixed1(SeasonAceSum)

C2_BulletinRoundingCase ==
  /\ resp.op = "summary" /\ arg.year >= BulletinYear
  /\ SumSeq(resp.ace.monthly) # toFixed1(SeasonAceSum)


\* ------------------------------------------------------------------------
\* The ACE of one fix under every ACE operation
\* ------------------------------------------------------------------------
\* The winds of the fix, in half-knots: every half-knot up to MaxWindKt, two
\* stronger winds, and a missing wind.
FixWinds == 0..Kt(MaxWindKt) \cup {Kt(60), Kt(100), NULL}

FixHours == {0, 3, 6, 11, 12, 18, 23}

\* The fix as a row of the archive and as the one point of a bulletin storm,
\* on 2 January.
FixTime(year, hour) == DateUTC(year, 0, 2, hour)

FixRow(wind, hour) ==
  [season |-> ArchiveYear, basin |-> "WP", nature |-> "TS", time |-> FixTime(ArchiveYear, hour),
   lat |-> 150, lon |-> 1300, usaWind |-> wind, usaPres |-> 990, name |-> "ALICE",
   stormId |-> ExtId("WP01")]

FixStorm(wind, hour) ==
  [id |-> BDeckId(1, BulletinYear), num |-> 1, year |-> BulletinYear,
   points |-> <<[t |-> FixTime(BulletinYear, hour), lat |-> 150, lon |-> 1300,
                 wind |-> wind, pres |-> 990]>>]

InitAce ==
  /\ IdleTracks
  /\ mtime = 0 /\ cache = EmptyCache /\ hist = NoHist /\ decks = <<>>
  /\ \E w \in FixWinds : \E h \in FixHours : arg = [op |-> "fix", wind |-> w, hour |-> h]
  /\ resp = NoResp
  /\ fetch = NoFetch

\* The result of the one operation applied to the fix: the accumulated
\* value before rounding, and the value the operation returns.
Answer(op, rawAce, out) ==
  /\ arg.op = "fix"
  /\ resp = NoResp
  /\ resp' = [op |-> op, raw |-> rawAce, out |-> out]
  /\ UNCHANGED <<tracksVars, mtime, cache, hist, decks, fetch, arg>>

AceByMonth ==
  LET rws == <<FixRow(arg.wind, arg.hour)>>
  IN  Answer("computeACEByMonth", SumSeq(ACEByMonthRaw(rws, ArchiveYear, NULL)),
             SumSeq(computeACEByMonth(rws, ArchiveYear, NULL)))

AceByStorm ==
  LET rws == <<FixRow(arg.wind, arg.hour)>>
  IN  Answer("computeACEByStorm", ACEByStormRaw(rws), computeACEByStorm(rws))

AceOfSummary ==
  LET rws == <<FixRow(arg.wind, arg.hour)>>
      sm == <<[key |-> rws[1].stormId, val |-> rws]>>
  IN  Answer("computeStormSummaries", SummaryAceRaw(rws),
             computeStormSummaries(sm, ArchiveYear)[1].ace)

AceYTD ==
  LET rws == <<FixRow(arg.wind, arg.hour)>>
      asOf == FixTime(ArchiveYear, 0)
  IN  Answer("computeACEYTD", ACEYTDRaw(rws, ArchiveYear, asOf),
             computeACEByCutoff(rws, ArchiveYear, asOf).total)

AceYTDMonthlyCum ==
  LET rws == <<FixRow(arg.wind, arg.hour)>>
      asOf == FixTime(ArchiveYear, 0)
  IN  Answer("computeACEYTDMonthlyCum", SumSeq(ACEYTDMonthlyRaw(rws, ArchiveYear, asOf)),
             computeACEByCutoff(rws, ArchiveYear, asOf).cumMonthly[12])

AceYTDClimo ==
  LET rws == <<FixRow(arg.wind, arg.hour)>>
  IN  Answer("computeACEYTDClimo", SumSeq(ClimoPerMonth(rws, ArchiveYear, 0, 2)),
             computeACEYTDClimo(rws, 0, 2, ArchiveYear, ArchiveYear).average)

AceDaily ==
  LET rws == <<FixRow(arg.wind, arg.hour)>>
      asOf == FixTime(ArchiveYear, 0)
  IN  Answer("computeACEDaily", SumSeq(ACEDailyRaw(rws, ArchiveYear, asOf)),
             computeACEDaily(rws, ArchiveYear, asOf).total)

AceDailyClimo ==
  LET rws == <<FixRow(arg.wind, arg.hour)>>
  IN  Answer("computeACEDailyClimo", SumSeq(ClimoDailyY(rws, ArchiveYear, 0, 2)),
             computeACEDailyClimo(rws, 0, 2, ArchiveYear, ArchiveYear).avgCum[2])

AceMonthlyFromBDecks ==
  LET bs == <<FixStorm(arg.wind, arg.hour)>>
  IN  Answer("monthlyAceFromBDecks", MonthlyRawFromBDecks(bs, NULL).totalRaw,
             monthlyAceFromBDecks(bs, NULL).total)

AceYTDFromBDecks ==
  LET bs == <<FixStorm(arg.wind, arg.hour)>>
      asOf == FixTime(BulletinYear, 0)
  IN  Answer("aceYTDFromBDecks", YTDRawFromBDecks(bs, asOf).total,
             aceYTDFromBDecks(bs, asOf).total)

AceDailyFromBDecks ==
  LET bs == <<FixStorm(arg.wind, arg.hour)>>
      asOf == FixTime(BulletinYear, 0)
  IN  Answer("dailyFromBDecks", SumSeq(DailyRawFromBDecks(bs, asOf)),
             dailyFromBDecks(bs, asOf).total)

AceCurrentBDecks ==
  LET bs == <<FixStorm(arg.wind, arg.hour)>>
  IN  Answer("current/bdecks", CurrentBDeckAceRaw(bs[1].points),
             toFixed1(CurrentBDeckAceRaw(bs[1].points)))

NextAce ==
  \/ AceByMonth
  \/ AceByStorm
  \/ AceOfSummary
  \/ AceYTD
  \/ AceYTDMonthlyCum
  \/ AceYTDClimo
  \/ AceDaily
  \/ AceDailyClimo
  \/ AceMonthlyFromBDecks
  \/ AceYTDFromBDecks
  \/ AceDailyFromBDecks
  \/ AceCurrentBDecks

SpecAce == InitAce /\ [][NextAce]_vars

\* The multiple of 5 kt nearest to a wind of w half-knots, the upper one
\* when two are equally near.
NearestFive(w) == CHOOSE r \in {5 * k : k \in 0..40} : 2 * r - 5 <= w /\ w < 2 * r + 5

\* The contribution the claim gives a fix, in units of 1/10000.
Contribution(w, hour) ==
  IF hour \notin {0, 6, 12, 18} THEN 0
  ELSE IF w = NULL THEN 0
  ELSE IF NearestFive(w) < 35 THEN 0
  ELSE NearestFive(w) * NearestFive(w)

\* Every operation accumulates the claim's contribution for the fix and
\* returns it rounded to one decimal.
ContributionEverywhere ==
  resp.op # "none" =>
    /\ resp.raw = Contribution(arg.wind, arg.hour)
    /\ resp.out = toFixed1(Contribution(arg.wind, arg.hour))

\* A fix of w half-knots at a synoptic hour is counted with the rounded wind r.
RoundsTo(w, r) ==
  (resp.op # "none" /\ arg.wind = w /\ arg.hour \in {0, 6, 12, 18}) =>
    resp.raw = (IF r < 35 THEN 0 ELSE r * r)

\* C5 as stated: under every ACE operation one fix contributes 0 off the
\* synoptic hours, 0 when its wind is missing or rounds below 35 kt, and
\* r * r / 10000 otherwise, r being the nearest multiple of 5 with ties
\* upward, with the examples 37 -> 40, 32 -> 30 and 60 kt -> 0.36.
C5_SameContributionEverywhere ==
  /\ ContributionEverywhere
  /\ RoundsTo(Kt(37), 40)
  /\ RoundsTo(Kt(32), 30)
  /\ RoundsTo(Kt(60), 60)

\* C5 amended: the same contribution under every ACE operation, with the
\* examples 37 -> 35 (the nearest multiple of 5), 37.5 -> 40 (the tie, taken
\* upward), 32 -> 30 and 60 kt -> 0.36.
C5_SameContributionNearestFive ==
  /\ ContributionEverywhere
  /\ RoundsTo(Kt(37), 35)
  /\ RoundsTo(Kt(37) + 1, 40)
  /\ RoundsTo(Kt(32), 30)
  /\ RoundsTo(Kt(60), 60)

\* C5: a storm summary of a fix of 37.5 kt at 06Z, the tie that rounds up to
\* 40 kt and contributes 0.16.
C5_Witness ==
  /\ resp.op = "computeStormSummaries"
  /\ arg.wind = Kt(37) + 1 /\ arg.hour = 6
  /\ resp.raw = 1600


\* ------------------------------------------------------------------------
\* Category days of a storm map
\* ------------------------------------------------------------------------
\* The hours from one fix of a track to the next, and the winds of the fixes.
TrackGaps == {0, 6, 13, 30}

TrackWinds == {NULL, W40, Kt(64)}

\* The first fix of every track: 1 August, 00Z.
TrackStart == DateUTC(ArchiveYear, 7, 1, 0)

TrackFix(t, wind) ==
  [season |-> ArchiveYear, time |-> t, lat |-> 150, lon |-> 1300,
   usaWind |-> wind, usaPres |-> 990, name |-> "ALICE"]

\* The track of the fixes with the given winds, gaps[i] hours after fix i.
TrackOf(winds, gaps) ==
  [i \in 1..Len(winds) |-> TrackFix(TrackStart + SumTo(gaps, i - 1), winds[i])]

Tracks ==
  UNION {{TrackOf(ws, gs) : ws \in [1..n -> TrackWinds], gs \in [1..(n - 1) -> TrackGaps]} :
          n \in 1..MaxTrack}

\* A second storm of one fix, an hour after the first fix of the first storm.
OtherStorm == [key |-> ExtId("WP02"), val |-> <<TrackFix(TrackStart + 1, W40)>>]

\* The cutoffs: none, the day of the first fix, the day after it, and the
\* day of the first fix in the year that follows.
TrackCutoffs == {NULL, TrackStart, TrackStart + 24, DateUTC(BulletinYear, 7, 1, 0)}

InitCategoryDays ==
  /\ raw = <<>> /\ rows = <<>> /\ text = <<>> /\ bstorms = <<>> /\ stage = "idle"
  /\ IdleApi
  /\ \E pts \in Tracks :
       \/ stormMap = <<[key |-> ExtId("WP01"), val |-> pts]>>
       \/ stormMap = <<[key |-> ExtId("WP01"), val |-> pts], OtherStorm>>

\* computeCategoryDays(stormMap, year, cutoffRefDate): the days returned, and
\* the hours behind them.
CategoryDays(cutoff) ==
  /\ resp = NoResp
  /\ stormMap # <<>>
  /\ arg' = [op |-> "computeCategoryDays", year |-> ArchiveYear, cutoff |-> cutoff]
  /\ resp' = [op |-> "computeCategoryDays",
              days |-> computeCategoryDays(stormMap, ArchiveYear, cutoff),
              hoursMs |-> CategoryMs(stormMap, ArchiveYear, cutoff)]
  /\ UNCHANGED <<tracksVars, mtime, cache, hist, decks, fetch>>

NextCategoryDays == \E cutoff \in TrackCutoffs : CategoryDays(cutoff)

SpecCategoryDays == InitCategoryDays /\ [][NextCategoryDays]_vars

\* The hours the claim gives fix i of a track: the time to the next fix of
\* the same storm, at most 12, and 6 for the last fix.
ClaimedHours(pts, i) ==
  IF i = Len(pts) THEN 6
  ELSE IF pts[i + 1].time - pts[i].time > 12 THEN 12
  ELSE pts[i + 1].time - pts[i].time

\* The hours the claim gives category k over a storm map.
ClaimedCategoryHours(sm, k) ==
  SumSeq([s \in 1..Len(sm) |->
    SumSeq([i \in 1..Len(sm[s].val) |->
      IF classify1min(sm[s].val[i].usaWind) = k THEN ClaimedHours(sm[s].val, i) ELSE 0])])

\* The number of fixes of a storm map.
FixCount(sm) == SumSeq([s \in 1..Len(sm) |-> Len(sm[s].val)])

\* The hours of the five categories together.
TotalMs(h) == h["TD"] + h["TS"] + h["STS"] + h["TY"] + h["STY"]

\* C6: without a cutoff every fix adds to its category min(12 h, time to the
\* next fix of its storm), the last fix of a storm 6 h, so that n fixes add
\* at most 12 * n hours; the days returned are those hours over 24, to one
\* decimal.
C6_CappedIntervals ==
  (resp.op = "computeCategoryDays" /\ arg.cutoff = NULL) =>
    /\ \A k \in Categories :
         /\ resp.hoursMs[k] = ClaimedCategoryHours(stormMap, k) * MsPerHour
         /\ resp.days[k] = DaysTenths(ClaimedCategoryHours(stormMap, k) * MsPerHour)
    /\ TotalMs(resp.hoursMs) <= 12 * FixCount(stormMap) * MsPerHour

\* C6: a storm of two tropical-storm fixes 30 h apart, beside a second storm:
\* the first fix adds 12 h, the last 6 h, the other storm's fix 6 h.
C6_Witness ==
  /\ resp.op = "computeCategoryDays" /\ arg.cutoff = NULL
  /\ Len(stormMap) = 2
  /\ Len(stormMap[1].val) = 2
  /\ stormMap[1].val[2].time - stormMap[1].val[1].time = 30
  /\ stormMap[1].val[1].usaWind = W40 /\ stormMap[1].val[2].usaWind = W40
  /\ resp.hoursMs["TS"] = 24 * MsPerHour
  /\ resp.days["TS"] = 10


\* ------------------------------------------------------------------------
\* The region test on a grid of points
\* ------------------------------------------------------------------------
\* Latitudes at every tenth of a degree and longitudes at every half degree,
\* from GridMargin degrees outside the region's bounding box, and null.
GridLats == ((50 - 10 * GridMargin)..(250 + 10 * GridMargin)) \cup {NULL}

GridLons == {5 * i : i \in (230 - 2 * GridMargin)..(270 + 2 * GridMargin)} \cup {NULL}

InitGeo ==
  /\ IdleTracks
  /\ mtime = 0 /\ cache = EmptyCache /\ hist = NoHist /\ decks = <<>>
  /\ \E lat \in GridLats : \E lon \in GridLons : arg = [op |-> "point", lat |-> lat, lon |-> lon]
  /\ resp = NoResp
  /\ fetch = NoFetch

\* insidePAR(lat, lon)
Locate ==
  /\ arg.op = "point"
  /\ resp = NoResp
  /\ resp' = [op |-> "insidePAR", inside |-> insidePAR(arg.lat, arg.lon)]
  /\ UNCHANGED <<tracksVars, mtime, cache, hist, decks, fetch, arg>>

NextGeo == Locate

SpecGeo == InitGeo /\ [][NextGeo]_vars

\* The six edges of the region, vertices included: the west side from 5 N
\* to 15 N, the slanted side from (15 N, 115 E) to (21 N, 120 E), the side
\* at 120 E from 21 N to 25 N, and the north, east and south sides.
OnRegionEdge(lat, lon) ==
  \/ lon = 1150 /\ 50 <= lat /\ lat <= 150
  \/ 1150 <= lon /\ lon <= 1200 /\ 5 * (lat - 150) = 6 * (lon - 1150)
  \/ lon = 1200 /\ 210 <= lat /\ lat <= 250
  \/ lat = 250 /\ 1200 <= lon /\ lon <= 1350
  \/ lon = 1350 /\ 50 <= lat /\ lat <= 250
  \/ lat = 50 /\ 1150 <= lon /\ lon <= 1350

\* The rectangle 5-25 N, 115-135 E, sides included.
InRectangle(lat, lon) == 50 <= lat /\ lat <= 250 /\ 1150 <= lon /\ lon <= 1350

\* The north-west corner the slanted side cuts off the rectangle: west of
\* 120 E and north of the line from (15 N, 115 E) to (21 N, 120 E).
InCutCorner(lat, lon) == lon < 1200 /\ 5 * (lat - 150) > 6 * (lon - 1150)

\* C7: insidePAR is true on every vertex and edge of the region polygon,
\* false at every point outside the polygon, and false when lat or lon is
\* null.
C7_BoundaryInsideOutsideNull ==
  resp.op = "insidePAR" =>
    /\ (arg.lat = NULL \/ arg.lon = NULL) => ~resp.inside
    /\ (arg.lat # NULL /\ arg.lon # NULL /\ OnRegionEdge(arg.lat, arg.lon)) => resp.inside
    /\ (arg.lat # NULL /\ arg.lon # NULL
          /\ (~InRectangle(arg.lat, arg.lon) \/ InCutCorner(arg.lat, arg.lon))) => ~resp.inside

\* C7: a point in the middle of the slanted side (15.6 N, 115.5 E), found
\* inside.
C7_Witness ==
  /\ resp.op = "insidePAR"
  /\ arg.lat = 156 /\ arg.lon = 1155
  /\ resp.inside

DailyRow(y, m, d, h, wind) ==
  [RawRow("ALICE", DateUTC(y, m, d, h), "WP01", "", wind) EXCEPT !.SEASON = y]

DailyRows ==
  {DailyRow(y, md[1], md[2], md[3], W40) :
     y \in {EpochYear, ArchiveYear}, md \in {<<1, 28, 0>>, <<2, 1, 6>>}}
  \cup {DailyRow(ArchiveYear, 1, 29, 12, W40),
        DailyRow(ArchiveYear, 2, 1, 3, W40),
        DailyRow(ArchiveYear, 1, 28, 0, W30)}

\* The bulletin file of the current season: one fix on 28 February.
DailyDeck ==
  [num |-> 1,
   lines |-> <<BLine(Ymdh(BulletinYear, 2, 28, 0), [digits |-> 150, ndig |-> 3, hemi |-> "N"], W40)>>]

\* The end dates of the requests for a year.
DailyEnds(year) ==
  {DateUTC(year, 1, 28, 0), DateUTC(year, 2, 1, 0)}
  \cup (IF isLeap(year) THEN {DateUTC(year, 1, 29, 0)} ELSE {})

InitDaily ==
  /\ rows = <<>> /\ text = <<>> /\ bstorms = <<>> /\ stormMap = <<>> /\ stage = "idle"
  /\ mtime = 1
  /\ cache = EmptyCache
  /\ hist = NoHist
  /\ arg = NoArg
  /\ resp = NoResp
  /\ fetch = NoFetch
  /\ raw \in SeqsUpTo(DailyRows, MaxFixes)
  /\ decks \in {<<>>, <<DailyDeck>>}

\* router.get('/ace/daily', ...), the one request of a run.
AceDailyRoute(year, endDate) ==
  LET c1 == ensureLoaded(cache, FALSE, raw, mtime)
  IN  /\ resp = NoResp
      /\ cache' = c1
      /\ hist' = History(hist, cache, FALSE, raw, mtime)
      /\ arg' = [op |-> "ace/daily", year |-> year, end |-> endDate]
      /\ resp' = AceDailyResponse(c1, decks, year, endDate)
      /\ UNCHANGED <<tracksVars, mtime, decks, fetch>>

NextDaily ==
  \E year \in {ArchiveYear, BulletinYear} : \E endDate \in DailyEnds(year) :
    AceDailyRoute(year, endDate)

SpecDaily == InitDaily /\ [][NextDaily]_vars

\* A row of a baseline year that qualifies for ACE.
QualifiesInBaseline(r) ==
  /\ r.season \in BaseStart..BaseEnd
  /\ getUTCFullYear(r.time) = r.season
  /\ isSynopticHour(r.time)
  /\ WindAce(r.usaWind) > 0

IsFeb29(t) == getUTCMonth(t) = 1 /\ getUTCDate(t) = 29

\* The month and day of t are not after the cutoff's month and day.
WithinCutoff(t, endMonth, endDay) ==
  \/ getUTCMonth(t) < endMonth
  \/ getUTCMonth(t) = endMonth /\ getUTCDate(t) <= endDay

\* The day of the year of t in a non-leap year, minus 1.
NonLeapIndex(t) == NLEAP_CUM[getUTCMonth(t) + 1] + getUTCDate(t) - 1

\* C9: the daily series of the climatology have length NLEAP_CUM[month] +
\* day (60 for a 29 February cutoff); a qualifying fix of 29 February lands
\* in no bucket, and every other qualifying fix within the cutoff lands in
\* the bucket of its non-leap day of the year minus 1, in a leap year as in
\* any other.
C9_NormalisedDailyAxis ==
  resp.op = "ace/daily" =>
    LET m == getUTCMonth(arg.end)
        d == getUTCDate(arg.end)
        n == NLEAP_CUM[m + 1] + d
        base == SelectSeq(cache.rows, QualifiesInBaseline)
    IN  /\ Len(resp.average.daily) = n
        /\ Len(resp.average.cum) = n
        /\ (m = 1 /\ d = 29) => n = 60
        /\ \A i \in 1..Len(base) :
             /\ IsFeb29(base[i].time) =>
                  ClimoBucket(base[i], base[i].season, m, d) = NULL
             /\ (~IsFeb29(base[i].time) /\ WithinCutoff(base[i].time, m, d)) =>
                  /\ ClimoBucket(base[i], base[i].season, m, d) = NonLeapIndex(base[i].time)
                  /\ NonLeapIndex(base[i].time) < n
        /\ (\A i \in 1..Len(base) : IsFeb29(base[i].time)) =>
             \A k \in 1..n : resp.average.daily[k] = 0
        /\ \A k \in 1..n :
             resp.average.daily[k] > 0 =>
               \E i \in 1..Len(base) : ~IsFeb29(base[i].time) /\ NonLeapIndex(base[i].time) = k - 1

\* C9: a cutoff of 1 March over a fix of 1 March of the non-leap year and
\* one of the leap year: both land in bucket 59 of 60, whose average is 0.2.
C9_Witness ==
  /\ resp.op = "ace/daily"
  /\ getUTCMonth(arg.end) = 2 /\ getUTCDate(arg.end) = 1
  /\ Len(cache.rows) = 2
  /\ \A i \in 1..2 : QualifiesInBaseline(cache.rows[i]) /\ getUTCMonth(cache.rows[i].time) = 2
  /\ cache.rows[1].season # cache.rows[2].season
  /\ Len(resp.average.daily) = 60
  /\ resp.average.daily[60] = 2

\* C9: a cutoff of 29 February over a fix of 29 February of the leap year:
\* the series has 60 days, all of them 0.
C9_LeapDayWitness ==
  /\ resp.op = "ace/daily"
  /\ IsFeb29(arg.end)
  /\ Len(cache.rows) = 1 /\ QualifiesInBaseline(cache.rows[1]) /\ IsFeb29(cache.rows[1].time)
  /\ Len(resp.average.daily) = 60
  /\ \A k \in 1..60 : resp.average.daily[k] = 0


\* ------------------------------------------------------------------------
\* The archive cache under loads, forced reloads and file modifications
\* ------------------------------------------------------------------------
\* A named storm of the archive year and an unnamed one of the year before.
CacheRows ==
  {RawRow("ALICE", T1, "WP01", "", W50),
   [RawRow("", DateUTC(EpochYear, 7, 1, 0), "", "SID2", W50) EXCEPT !.SEASON = EpochYear]}

CacheFiles == SeqsUpTo(CacheRows, MaxFixes)

InitCache ==
  /\ rows = <<>> /\ text = <<>> /\ bstorms = <<>> /\ stormMap = <<>> /\ stage = "idle"
  /\ raw \in CacheFiles
  /\ mtime = 1
  /\ cache = EmptyCache
  /\ hist = NoHist
  /\ decks = <<>>
  /\ arg = NoArg
  /\ resp = NoResp
  /\ fetch = NoFetch

\* ensureLoaded(), as the handlers call it first.
EnsureLoaded ==
  /\ MustLoad(cache, FALSE, mtime) => hist.loads < MaxLoads
  /\ cache' = ensureLoaded(cache, FALSE, raw, mtime)
  /\ hist' = History(hist, cache, FALSE, raw, mtime)
  /\ arg' = [op |-> "ensureLoaded"]
  /\ resp' = [op |-> "ensureLoaded"]
  /\ UNCHANGED <<tracksVars, mtime, decks, fetch>>

\* router.get('/reload', ...): ensureLoaded(true)
Reload ==
  /\ hist.loads < MaxLoads
  /\ cache' = ensureLoaded(cache, TRUE, raw, mtime)
  /\ hist' = History(hist, cache, TRUE, raw, mtime)
  /\ arg' = [op |-> "reload"]
  /\ resp' = [op |-> "reload", ok |-> TRUE, reloaded |-> TRUE]
  /\ UNCHANGED <<tracksVars, mtime, decks, fetch>>

\* mapForYear(year), the map it returns being the response.
MapForYear(year) ==
  LET c1 == mapForYear(cache, year, raw, mtime)
  IN  /\ MustLoad(cache, FALSE, mtime) => hist.loads < MaxLoads
      /\ cache' = c1
      /\ hist' = History(hist, cache, FALSE, raw, mtime)
      /\ arg' = [op |-> "mapForYear", year |-> year]
      /\ resp' = [op |-> "mapForYear", map |-> MapGet(c1.yearMaps, year)]
      /\ UNCHANGED <<tracksVars, mtime, decks, fetch>>

\* The archive file is replaced or rewritten: its modification time moves on.
ModifyFile(content) ==
  /\ mtime < MaxMtime
  /\ raw' = content
  /\ mtime' = mtime + 1
  /\ UNCHANGED <<rows, text, bstorms, stormMap, stage, cache, hist, decks, fetch, arg, resp>>

NextCache ==
  \/ EnsureLoaded
  \/ Reload
  \/ \E year \in {EpochYear, ArchiveYear} : MapForYear(year)
  \/ \E content \in CacheFiles : ModifyFile(content)

SpecCache == InitCache /\ [][NextCache]_vars

\* The Track Store: the storm ids and, for each id, its fixes in order.
TrackStore(c) == [rows |-> c.rows, ids |-> [i \in 1..Len(c.allMap) |-> c.allMap[i].key], allMap |-> c.allMap]

W35 == Kt(35)

\* Rows of the first days of January of the two baseline years: 35-kt fixes,
\* a fix below the ACE threshold and a fix at an hour that is not synoptic.
ClimoRows ==
  {DailyRow(y, 0, d, 0, W35) : y \in {EpochYear, ArchiveYear}, d \in {1, 2}}
  \cup {DailyRow(ArchiveYear, 0, 1, 0, W30),
        DailyRow(ArchiveYear, 0, 2, 3, W35)}

\* The cutoffs and end dates of the requests.
ClimoCutoffs == {DateUTC(ArchiveYear, 0, 1, 0), DateUTC(ArchiveYear, 0, 2, 0)}

InitClimo ==
  /\ rows = <<>> /\ text = <<>> /\ bstorms = <<>> /\ stormMap = <<>> /\ stage = "idle"
  /\ mtime = 1
  /\ cache = EmptyCache
  /\ hist = NoHist
  /\ arg = NoArg
  /\ resp = NoResp
  /\ fetch = NoFetch
  /\ raw \in SeqsUpTo(ClimoRows, MaxFixes)
  /\ decks = <<>>

\* router.get('/ace/cutoff', ...)
AceCutoffRoute(year, cutoff) ==
  LET c1 == ensureLoaded(cache, FALSE, raw, mtime)
  IN  /\ cache' = c1
      /\ hist' = History(hist, cache, FALSE, raw, mtime)
      /\ arg' = [op |-> "ace/cutoff", year |-> year, cutoff |-> cutoff]
      /\ resp' = AceCutoffResponse(c1, decks, year, cutoff)
      /\ UNCHANGED <<tracksVars, mtime, decks, fetch>>

NextClimo ==
  \/ /\ resp = NoResp
     /\ \E cutoff \in ClimoCutoffs : AceCutoffRoute(ArchiveYear, cutoff)
  \/ /\ resp = NoResp
     /\ \E endDate \in ClimoCutoffs : AceDailyRoute(ArchiveYear, endDate)
  \/ /\ resp = NoResp
     /\ \E cutoff \in ClimoCutoffs \cup {NULL} : Summary(ArchiveYear, cutoff)

SpecClimo == InitClimo /\ [][NextClimo]_vars

\* The baseline years for which the archive has at least one row.
YearsWithRows(rws) ==
  {y \in BaseStart..BaseEnd : \E i \in 1..Len(rws) : rws[i].season = y}

\* The years a response reports as used.
YearsReported ==
  IF resp.op = "summary" THEN resp.categoryDaysClimo.baseline.years
  ELSE resp.baseline.years

ClimoOps == {"ace/cutoff", "ace/daily", "summary"}

\* C11: every climatology reports as yearsUsed the number of baseline years
\* for which rows exist: a year without any row is skipped, a year with rows
\* but no qualifying ACE or duration is counted.
C11_YearsUsedAreYearsWithRows ==
  resp.op \in ClimoOps => YearsReported = Cardinality(YearsWithRows(cache.rows))

\* C11, category-days climatology alone: the years used are the years with rows.
C11_CategoryClimoSkipsEmptyYears ==
  resp.op = "summary" => YearsReported = Cardinality(YearsWithRows(cache.rows))

\* C11, ACE climatologies (cutoff and daily): every year of the baseline is
\* counted, with or without rows.
C11_AceClimoCountsEveryYear ==
  resp.op \in {"ace/cutoff", "ace/daily"} => YearsReported = BaseEnd - BaseStart + 1

\* C11: a cutoff ACE climatology over an archive with rows of one baseline
\* year only, two 35-kt fixes (0.245): two years are used, and the average is
\* 0.1 where the one year with rows alone gives 0.2.
C11_EmptyYearCountedCase ==
  /\ resp.op = "ace/cutoff"
  /\ Cardinality(YearsWithRows(cache.rows)) = 1
  /\ resp.baseline.years = 2
  /\ resp.current = 2
  /\ resp.average = 1

\* sumDaily of computeACEDailyClimo at full precision, for the last request.
DailyClimoSum ==
  LET m == getUTCMonth(arg.end)
      d == getUTCDate(arg.end)
      ys == YearsOf(BaseStart, BaseEnd)
      dailyY == Array([k \in 1..Len(ys) |-> ClimoDailyY(cache.rows, ys[k], m, d)])
  IN  Array([i \in 1..normLengthToMonthDay(m, d) |->
        SumSeq([k \in 1..Len(ys) |-> dailyY[k][i]])])

\* C18: every cumulative value of the daily climatology is the full-precision
\* sum of the per-day averages up to that day, rounded once to one decimal.
C18_CumulativeRoundedOnce ==
  resp.op = "ace/daily" =>
    \A i \in 1..Len(resp.average.cum) :
      resp.average.cum[i] = toFixed1Q(SumTo(DailyClimoSum, i), resp.baseline.years)

\* C18: every cumulative value is the sum of the per-day averages already
\* rounded to one decimal.
C18_CumulativeOfRounded ==
  resp.op = "ace/daily" =>
    \A i \in 1..Len(resp.average.cum) :
      resp.average.cum[i] = SumTo(resp.average.daily, i)

\* C18: 35-kt fixes on 1 January of one year and 2 January of the other: the
\* per-day averages 0.06125 are each emitted as 0.1 and add up to 0.2, while
\* their full-precision sum 0.1225 is 0.1.
C18_RoundingCase ==
  /\ resp.op = "ace/daily"
  /\ Len(resp.average.cum) = 2
  /\ resp.average.cum[2] = 2
  /\ toFixed1Q(SumTo(DailyClimoSum, 2), resp.baseline.years) = 1


\* ------------------------------------------------------------------------
\* fetchActiveBDecks: batches of concurrent tasks, one per storm number
\* ------------------------------------------------------------------------
\* What happens to the request of one storm number: the response is a
\* success and its text arrives, the response is not a success (404), or
\* the fetch rejects (timeout or network error).
Outcomes == {"ok", "notok", "timeout"}

\* The texts of a file: one line that parses, one line that does not.
FetchTexts ==
  {<<BLine(Ymdh(BulletinYear, 8, 19, 6), [digits |-> 272, ndig |-> 3, hemi |-> "N"], W50)>>,
   <<BLine([Ymdh(BulletinYear, 8, 19, 6) EXCEPT !.digits10 = FALSE],
           [digits |-> 272, ndig |-> 3, hemi |-> "N"], W50)>>}

\* Every number not yet past, in one batch (not the code's).
RestSlice(i, max) == {n \in 1..max : i < n}

\* nums.slice(i, i + BATCH), as storm numbers.
BatchSlice(i, max) == {n \in 1..max : i < n /\ n <= i + BatchSize}

\* The text the mirror serves for storm number n.
TextOf(dks, n) == dks[CHOOSE k \in 1..Len(dks) : dks[k].num = n].lines

\* `catch { }`: the error is swallowed and the task fulfils.
OnError == "settled"

InitFetch ==
  /\ IdleTracks
  /\ mtime = 0 /\ cache = EmptyCache /\ hist = NoHist
  /\ arg = [op |-> "fetchActiveBDecks", year |-> BulletinYear, max |-> MaxProbe]
  /\ resp = NoResp
  /\ \E oc \in [1..MaxProbe -> Outcomes] :
       /\ fetch = [stage |-> "called", i |-> 0,
                   pos |-> [n \in 1..MaxProbe |-> "none"], outcome |-> oc]
       /\ \E tx \in [1..MaxProbe -> FetchTexts] :
            decks = [n \in 1..MaxProbe |->
                      [num |-> n, lines |-> IF oc[n] = "ok" THEN tx[n] ELSE <<>>]]

\* slice.map(async n => ...): every task of the batch runs up to its
\* `await fetch(url, ...)`; the loop then waits in Promise.allSettled.
StartBatch ==
  /\ fetch.stage \in {"called", "loop"}
  /\ fetch.i < arg.max
  /\ fetch' = [fetch EXCEPT !.stage = "batch",
                 !.pos = [n \in 1..MaxProbe |->
                            IF n \in BatchSlice(fetch.i, arg.max) THEN "fetching" ELSE @[n]]]
  /\ UNCHANGED <<tracksVars, mtime, cache, hist, decks, arg, resp>>

\* The fetch of task n settles: a rejection is caught, a response that is
\* not ok ends the task, an ok response goes on to `await res.text()`.
FetchSettles(n) ==
  /\ fetch.stage = "batch" /\ fetch.pos[n] = "fetching"
  /\ fetch' = [fetch EXCEPT !.pos[n] =
                 IF fetch.outcome[n] = "timeout" THEN OnError
                 ELSE IF fetch.outcome[n] = "notok" THEN "settled"
                 ELSE "reading"]
  /\ UNCHANGED <<tracksVars, mtime, cache, hist, decks, arg, resp>>

\* The text of task n arrives: the storm is parsed and pushed when it has
\* points.
TextSettles(n) ==
  /\ fetch.stage = "batch" /\ fetch.pos[n] = "reading"
  /\ LET storm == parseBDeckText(TextOf(decks, n), n, arg.year)
     IN  bstorms' = IF Len(storm.points) > 0 THEN Append(bstorms, storm) ELSE bstorms
  /\ fetch' = [fetch EXCEPT !.pos[n] = "settled"]
  /\ UNCHANGED <<raw, rows, text, stormMap, stage, mtime, cache, hist, decks, arg, resp>>

\* Promise.allSettled(tasks) resolves once every task of the batch has
\* settled: `i += BATCH`, and the loop goes on.
BatchSettles ==
  /\ fetch.stage = "batch"
  /\ \A n \in BatchSlice(fetch.i, arg.max) : fetch.pos[n] = "settled"
  /\ fetch' = [fetch EXCEPT !.stage = "loop", !.i = @ + BatchSize]
  /\ UNCHANGED <<tracksVars, mtime, cache, hist, decks, arg, resp>>

\* The loop is over: storms.sort(...); return storms.
ReturnStorms ==
  /\ fetch.stage = "loop"
  /\ fetch.i >= arg.max
  /\ fetch' = [fetch EXCEPT !.stage = "done"]
  /\ resp' = [op |-> "fetchActiveBDecks", storms |-> SortByNum(bstorms)]
  /\ UNCHANGED <<tracksVars, mtime, cache, hist, decks, arg>>

NextFetch ==
  \/ StartBatch
  \/ \E n \in 1..MaxProbe : FetchSettles(n)
  \/ \E n \in 1..MaxProbe : TextSettles(n)
  \/ BatchSettles
  \/ ReturnStorms

SpecFetch == InitFetch /\ [][NextFetch]_vars

\* Every fetch and every read of a text settles: the request carries a
\* timeout (AbortSignal.timeout(6000)).
SpecFetchFair == SpecFetch /\ WF_vars(NextFetch)

FetchDone == fetch.stage = "done"

\* The storm numbers whose fetch succeeded and whose text has at least one
\* line that parses into a fix.
Succeeded ==
  {n \in 1..arg.max :
     /\ fetch.outcome[n] = "ok"
     /\ \E k \in 1..Len(TextOf(decks, n)) : ParseLine(<<>>, TextOf(decks, n)[k]) # <<>>}

\* The storms returned are those of the numbers in S, each once, in ascending
\* order of number, each with the fixes of its text.
ReturnsExactly(S) ==
  /\ Len(resp.storms) = Cardinality(S)
  /\ {resp.storms[k].num : k \in 1..Len(resp.storms)} = S
  /\ \A k \in 1..(Len(resp.storms) - 1) : resp.storms[k].num < resp.storms[k + 1].num
  /\ \A k \in 1..Len(resp.storms) :
       resp.storms[k] = parseBDeckText(TextOf(decks, resp.storms[k].num), resp.storms[k].num, arg.year)

\* The call has neither returned nor can it go on: an error escaped a task
\* or the wait for the batch, and the call is abandoned.
Abandoned == ~FetchDone /\ ~ENABLED NextFetch

\* C12: whatever the outcomes of the probed numbers and the order in which
\* their tasks settle, fetchActiveBDecks is never abandoned before it
\* returns, and it returns exactly the storms whose fetch succeeded with at
\* least one parsed fix, each once, in ascending order of storm number.
C12_FetchReturnsSucceeded ==
  /\ ~Abandoned
  /\ FetchDone => ReturnsExactly(Succeeded)

\* C12, completion: under SpecFetchFair every call returns.
C12_FetchCompletes == <>FetchDone

\* C12: a call in which a number failed beside a sibling of its batch that
\* succeeded, and in which the storms were pushed out of order.
C12_Witness ==
  /\ FetchDone
  /\ ReturnsExactly(Succeeded)
  /\ \E n, m \in BatchSlice(0, arg.max) :
       n \in Succeeded /\ fetch.outcome[m] \in {"timeout", "notok"}
  /\ Len(bstorms) >= 2
  /\ bstorms # resp.storms


\* ------------------------------------------------------------------------
\* The bulletin source behind the routes: a mirror that serves a storm's file
\* and an invest's file
\* ------------------------------------------------------------------------
\* Lines of the first days of January, inside the region.
InvestLines ==
  {BLine(Ymdh(BulletinYear, 1, 1, 0), [digits |-> 150, ndig |-> 3, hemi |-> "N"], W50),
   BLine(Ymdh(BulletinYear, 1, 2, 6), [digits |-> 150, ndig |-> 3, hemi |-> "N"], W40)}

\* The file of storm 1: one 40-kt fix on 1 January.
StormDeck ==
  [num |-> 1,
   lines |-> <<BLine(Ymdh(BulletinYear, 1, 1, 0), [digits |-> 150, ndig |-> 3, hemi |-> "N"], W40)>>]

BulletinCutoffs == {DateUTC(BulletinYear, 0, 1, 0), DateUTC(BulletinYear, 0, 2, 0)}

InitBulletins ==
  /\ IdleTracks
  /\ raw = <<>>
  /\ mtime = 1 /\ cache = EmptyCache /\ hist = NoHist
  /\ arg = NoArg /\ resp = NoResp /\ fetch = NoFetch
  /\ \E num \in {2, InvestLo, InvestHi} :
       \E ls \in SeqsUpTo(InvestLines, MaxFixes) \ {<<>>} :
         decks \in {<<[num |-> num, lines |-> ls]>>, <<StormDeck, [num |-> num, lines |-> ls]>>}

\* router.get('/storms', ...)
StormsRoute(year) ==
  LET c1 == IF year >= BulletinYear THEN cache ELSE mapForYear(cache, year, raw, mtime)
  IN  /\ cache' = c1
      /\ hist' = IF year >= BulletinYear THEN hist ELSE History(hist, cache, FALSE, raw, mtime)
      /\ arg' = [op |-> "storms", year |-> year]
      /\ resp' = StormsResponse(c1, decks, year)
      /\ UNCHANGED <<tracksVars, mtime, decks, fetch>>

\* router.get('/storms/:id/track', ...)
TrackRoute(year, id) ==
  LET bs == fetchActiveBDecks(Probed(decks, DefaultMax), year)
      hit == year >= BulletinYear /\ \E k \in 1..Len(bs) : bs[k].id = id
      c1 == IF hit THEN cache ELSE ensureLoaded(cache, FALSE, raw, mtime)
  IN  /\ cache' = c1
      /\ hist' = IF hit THEN hist ELSE History(hist, cache, FALSE, raw, mtime)
      /\ arg' = [op |-> "track", year |-> year, id |-> id]
      /\ resp' = TrackResponse(c1, decks, year, id)
      /\ UNCHANGED <<tracksVars, mtime, decks, fetch>>

\* router.get('/current/bdecks', ...)
CurrentBDecksRoute(year, q) ==
  /\ arg' = [op |-> "current/bdecks", year |-> year, max |-> ClampMax(q)]
  /\ resp' = CurrentBDecksResponse(decks, year, ClampMax(q))
  /\ UNCHANGED <<tracksVars, mtime, cache, hist, decks, fetch>>

NextBulletins ==
  \/ /\ resp = NoResp
     /\ \E cutoff \in BulletinCutoffs \cup {NULL} : Summary(BulletinYear, cutoff)
  \/ /\ resp = NoResp
     /\ \E cutoff \in BulletinCutoffs : AceCutoffRoute(BulletinYear, cutoff)
  \/ /\ resp = NoResp
     /\ \E endDate \in BulletinCutoffs : AceDailyRoute(BulletinYear, endDate)
  \/ /\ resp = NoResp
     /\ StormsRoute(BulletinYear)
  \/ /\ resp = NoResp
     /\ \E num \in {1, 2, InvestLo, InvestHi} :
          TrackRoute(BulletinYear, BDeckId(num, BulletinYear))
  \/ /\ resp = NoResp
     /\ \E q \in {NULL, 0, MaxStormNum, MaxStormNum + 1} : CurrentBDecksRoute(BulletinYear, q)

SpecBulletins == InitBulletins /\ [][NextBulletins]_vars

\* The mirror without the files of the numbers 90..99.
WithoutInvests(dks) == SelectSeq(dks, LAMBDA f : f.num < InvestLo \/ f.num > InvestHi)

\* The response of the last request, had the mirror served the files dks.
ResponseOver(dks) ==
  CASE arg.op = "summary" -> SummaryFromBDecks(cache, dks, arg.year, arg.cutoff)
    [] arg.op = "ace/cutoff" -> AceCutoffResponse(cache, dks, arg.year, arg.cutoff)
    [] arg.op = "ace/daily" -> AceDailyResponse(cache, dks, arg.year, arg.end)
    [] arg.op = "storms" -> StormsResponse(cache, dks, arg.year)
    [] arg.op = "track" -> TrackResponse(cache, dks, arg.year, arg.id)
    [] arg.op = "current/bdecks" -> CurrentBDecksResponse(dks, arg.year, arg.max)

\* The storms a response lists.
ListedNums ==
  IF resp.op \in {"summary", "storms"}
  THEN {resp.storms[k].id.anchor : k \in 1..Len(resp.storms)}
  ELSE IF resp.op = "current/bdecks"
  THEN {resp.storms[k].num : k \in 1..Len(resp.storms)}
  ELSE {}

\* C13: for the bulletin source, every response (season summary, cutoff
\* summary, daily summary, storms list, track, current bulletins) is the one
\* the same request gets from a mirror without the files of the numbers
\* 90..99, and no response lists a storm with such a number: no fix of an
\* invest contributes to any value.
C13_InvestsNeverContribute ==
  (arg.op # "none" /\ arg.year >= BulletinYear) =>
    /\ resp = ResponseOver(WithoutInvests(decks))
    /\ \A n \in ListedNums : n < InvestLo \/ n > InvestHi

\* C13: the current bulletins asked with max = 99 of a mirror that serves
\* storm 1 and invest 99 with a 50-kt synoptic fix: storm 1 alone is listed.
C13_Witness ==
  /\ resp.op = "current/bdecks" /\ arg.max = MaxStormNum
  /\ Len(decks) = 2
  /\ decks[2].num = InvestHi
  /\ decks[2].lines[1].wind = W50
  /\ Len(resp.storms) = 1
  /\ resp.storms[1].num = 1
  /\ resp.storms[1].ace = 2


\* ------------------------------------------------------------------------
\* Storm summaries, regional entries and the top-storms table of the page
\* ------------------------------------------------------------------------
\* Hours of the fixes: 31 August 00Z, 06Z and 15Z, and 1 September 00Z.
H00 == DateUTC(ArchiveYear, 7, 31, 0)
H06 == DateUTC(ArchiveYear, 7, 31, 6)
H15 == DateUTC(ArchiveYear, 7, 31, 15)
N00 == DateUTC(ArchiveYear, 8, 1, 0)

\* Positions [lat, lon]: 15 N 130 E is inside the region, 15 N 110 E is not.
PosInside == <<150, 1300>>
PosOutside == <<150, 1100>>

SeasonFix(t, pos, wind) ==
  [season |-> ArchiveYear, time |-> t, lat |-> pos[1], lon |-> pos[2],
   usaWind |-> wind, usaPres |-> 990, name |-> "ALICE"]

\* The fixes of the tracks: 40 kt at 00Z, 60 kt at 06Z, 80 kt at 15Z and
\* 33 kt the next day, each inside or outside the region.
StormFixes ==
  {SeasonFix(tw[1], pos, tw[2]) :
     tw \in {<<H00, W40>>, <<H06, Kt(60)>>, <<H15, Kt(80)>>, <<N00, Kt(33)>>},
     pos \in {PosInside, PosOutside}}

\* The tracks as groupByStorm and bdeckToStormMap leave them: sorted by time.
StormTracks == {SortTrack(fs) : fs \in SeqsUpTo(StormFixes, MaxTrack) \ {<<>>}}

\* A second storm of the season, one 50-kt fix at 06Z inside the region, and
\* a storm of another season.
RivalStorm == [key |-> ExtId("WP02"), val |-> <<SeasonFix(H06, PosInside, W50)>>]
OldStorm ==
  [key |-> ExtId("WP03"),
   val |-> <<[SeasonFix(DateUTC(EpochYear, 7, 31, 0), PosInside, W50) EXCEPT !.season = EpochYear]>>]

InitStorms ==
  /\ raw = <<>> /\ rows = <<>> /\ text = <<>> /\ bstorms = <<>> /\ stage = "idle"
  /\ IdleApi
  /\ \E pts \in StormTracks :
       LET first == [key |-> ExtId("WP01"), val |-> pts]
       IN  stormMap \in {<<first>>, <<first, RivalStorm>>, <<RivalStorm, first>>,
                         <<OldStorm, first>>}

\* computeStormSummaries(stormMap, year)
StormSummaries ==
  /\ resp = NoResp
  /\ arg' = [op |-> "computeStormSummaries", year |-> ArchiveYear]
  /\ resp' = [op |-> "computeStormSummaries",
              storms |-> computeStormSummaries(stormMap, ArchiveYear)]
  /\ UNCHANGED <<tracksVars, mtime, cache, hist, decks, fetch>>

\* computePARMonthlyEntries(stormMap, year)
PARMonthlyEntries ==
  /\ resp = NoResp
  /\ arg' = [op |-> "computePARMonthlyEntries", year |-> ArchiveYear]
  /\ resp' = [op |-> "computePARMonthlyEntries",
              par |-> computePARMonthlyEntries(stormMap, ArchiveYear)]
  /\ UNCHANGED <<tracksVars, mtime, cache, hist, decks, fetch>>

\* The arrays of the page: `list` is data.storms, `copy` the array slice() makes.
\* storms.sort(...) without a copy (not the code's).
NoSlice(heap) == [heap |-> heap, ref |-> "list"]

\* storms.slice(): a new array with the items of `list`, and the reference to it.
Slice(heap) == [heap |-> [heap EXCEPT !.copy = heap.list], ref |-> "copy"]

\* arr.sort((a, b) => b.ace - a.ace), in place (Array.prototype.sort is stable).
SortByAceDesc(arr) ==
  LET keyed == [i \in 1..Len(arr) |-> [sk |-> 0 - arr[i].ace, item |-> arr[i]]]
      sorted == StableSort(keyed)
  IN  [i \in 1..Len(arr) |-> sorted[i].item]

SortAt(heap, ref) == [heap EXCEPT ![ref] = SortByAceDesc(heap[ref])]

\* The rows of the top-storms table, and data.storms after the rendering.
TopStormsOf(sliced) ==
  [rows |-> SortAt(sliced.heap, sliced.ref)[sliced.ref],
   storms |-> SortAt(sliced.heap, sliced.ref).list]

\* renderSummary(data): the top-storms table of the summaries received.
RenderSummary ==
  /\ resp.op = "computeStormSummaries"
  /\ arg' = [op |-> "renderSummary", year |-> arg.year, storms |-> resp.storms]
  /\ resp' = [op |-> "renderSummary",
              table |-> TopStormsOf(Slice([list |-> resp.storms, copy |-> <<>>]))]
  /\ UNCHANGED <<tracksVars, mtime, cache, hist, decks, fetch>>

NextStorms ==
  \/ StormSummaries
  \/ PARMonthlyEntries
  \/ RenderSummary

SpecStorms == InitStorms /\ [][NextStorms]_vars

\* The storms of the map that the year filter keeps.
KeptStorms == SelectSeq(stormMap, LAMBDA e : Len(e.val) > 0 /\ e.val[1].season = ArchiveYear)

\* The largest wind, to the nearest 5 kt, over all the fixes of a track.
LargestWind(pts) == MaxOf({0} \cup {NearestFive(pts[i].usaWind) : i \in 1..Len(pts)})

\* The ACE of a track, in units of 1/10000: the fixes at 00Z, 06Z, 12Z, 18Z.
SynopticAce(pts) ==
  SumSeq([i \in 1..Len(pts) |-> Contribution(pts[i].usaWind, getUTCHours(pts[i].time))])

\* C14: the maxWind of every summary is the largest rounded wind over all the
\* fixes of its storm, synoptic or not, and its ace is the ACE of the fixes at
\* synoptic hours alone, rounded to one decimal.
C14_MaxWindAllFixesAceSynoptic ==
  resp.op = "computeStormSummaries" =>
    /\ Len(resp.storms) = Len(KeptStorms)
    /\ \A k \in 1..Len(resp.storms) :
         /\ MapHas(stormMap, resp.storms[k].id)
         /\ resp.storms[k].maxWind = LargestWind(MapGet(stormMap, resp.storms[k].id))
         /\ resp.storms[k].ace = toFixed1(SynopticAce(MapGet(stormMap, resp.storms[k].id)))

\* C14: the fixes (00Z, 40 kt), (06Z, 60 kt), (15Z, 80 kt) give maxWind 80
\* and ace 0.5.
C14_Example ==
  /\ resp.op = "computeStormSummaries"
  /\ Len(stormMap) = 1
  /\ Len(stormMap[1].val) = 3
  /\ stormMap[1].val[1].time = H00 /\ stormMap[1].val[1].usaWind = W40
  /\ stormMap[1].val[2].time = H06 /\ stormMap[1].val[2].usaWind = Kt(60)
  /\ stormMap[1].val[3].time = H15 /\ stormMap[1].val[3].usaWind = Kt(80)
  /\ resp.storms[1].maxWind = 80
  /\ resp.storms[1].ace = 5

\* The times of the fixes of a track that lie inside the region.
InsideTimes(pts) == {pts[i].time : i \in {j \in 1..Len(pts) : insidePAR(pts[j].lat, pts[j].lon)}}

\* The time of the earliest fix inside the region, NULL when there is none.
EarliestInside(pts) == IF InsideTimes(pts) = {} THEN NULL ELSE MinOf(InsideTimes(pts))

\* C15: every kept storm with a fix inside the region is counted once, in the
\* month of its earliest inside fix, and no other storm is counted; the
\* total is the sum of the twelve months; and the storms counted are those
\* whose summary has a parInDate, which is the time of that earliest fix.
C15_EntriesByEarliestInsideFix ==
  resp.op = "computePARMonthlyEntries" =>
    LET sums == computeStormSummaries(stormMap, arg.year)
    IN  /\ \A m \in 1..12 :
             resp.par.monthly[m] =
               Cardinality({s \in 1..Len(KeptStorms) :
                 /\ EarliestInside(KeptStorms[s].val) # NULL
                 /\ getUTCMonth(EarliestInside(KeptStorms[s].val)) = m - 1})
        /\ resp.par.total = SumSeq(resp.par.monthly)
        /\ resp.par.total <= Len(KeptStorms)
        /\ resp.par.total = Cardinality({k \in 1..Len(sums) : sums[k].parInDate # NULL})
        /\ \A k \in 1..Len(sums) :
             sums[k].parInDate = EarliestInside(MapGet(stormMap, sums[k].id))

\* C15: a storm outside the region in August and inside on 1 September, beside
\* a storm inside on 31 August: one entry in August, one in September.
C15_Witness ==
  /\ resp.op = "computePARMonthlyEntries"
  /\ Len(stormMap) = 2
  /\ stormMap[1].key = ExtId("WP01")
  /\ Len(stormMap[1].val) = 3
  /\ ~insidePAR(stormMap[1].val[1].lat, stormMap[1].val[1].lon)
  /\ insidePAR(stormMap[1].val[2].lat, stormMap[1].val[2].lon)
  /\ stormMap[1].val[2].time = N00
  /\ stormMap[1].val[3].time = N00
  /\ resp.par.monthly[8] = 1
  /\ resp.par.monthly[9] = 1
  /\ resp.par.total = 2

\* A list in ascending order of its start times.
AscendingByStart(l) == \A i, j \in 1..Len(l) : i < j => l[i].start <= l[j].start

\* A list in descending order of its ACE.
DescendingByAce(l) == \A i, j \in 1..Len(l) : i < j => l[i].ace >= l[j].ace

\* The summaries of a list, as a bag.
BagOf(l) == [x \in {l[i] : i \in 1..Len(l)} |-> Cardinality({i \in 1..Len(l) : l[i] = x})]

\* C16: the summaries are in ascending order of the start of their storms,
\* the start being the time of the first fix; the rows of the top-storms
\* table are the same summaries in descending order of ACE; and the list of
\* summaries is after the rendering what it was before.
C16_SummariesByStartTableByAce ==
  /\ resp.op = "computeStormSummaries" =>
       /\ AscendingByStart(resp.storms)
       /\ \A k \in 1..Len(resp.storms) :
            resp.storms[k].start = MapGet(stormMap, resp.storms[k].id)[1].time
  /\ resp.op = "renderSummary" =>
       /\ DescendingByAce(resp.table.rows)
       /\ BagOf(resp.table.rows) = BagOf(arg.storms)
       /\ resp.table.storms = arg.storms
       /\ AscendingByStart(resp.table.storms)

\* C16: two storms, the later one with the larger ACE: the table lists the
\* later storm first and the list of summaries keeps the earlier one first.
C16_Witness ==
  /\ resp.op = "renderSummary"
  /\ Len(resp.table.storms) = 2
  /\ resp.table.storms[1].start < resp.table.storms[2].start
  /\ resp.table.storms[1].ace < resp.table.storms[2].ace
  /\ resp.table.rows[1] = resp.table.storms[2]
  /\ resp.table.rows[2] = resp.table.storms[1]


\* ------------------------------------------------------------------------
\* GET /ace/daily: the lengths of the series
\* ------------------------------------------------------------------------
\* C17: the average series (daily and cumulative) are as long as the labels
\* and the current series (daily and cumulative), whatever the target year
\* and the end date.
C17_AverageAsLongAsCurrent ==
  resp.op = "ace/daily" =>
    /\ Len(resp.current.daily) = Len(resp.labels)
    /\ Len(resp.current.cum) = Len(resp.labels)
    /\ Len(resp.average.daily) = Len(resp.labels)
    /\ Len(resp.average.cum) = Len(resp.labels)

\* C17, the current series alone: daily and cumulative are as long as the
\* labels, and the two average series are as long as each other.
C17_SeriesPairwise ==
  resp.op = "ace/daily" =>
    /\ Len(resp.current.daily) = Len(resp.labels)
    /\ Len(resp.current.cum) = Len(resp.labels)
    /\ Len(resp.average.daily) = Len(resp.average.cum)

\* C17, by the target year: the average series are as long as the labels,
\* except for an end date after 29 February of a leap target year, where they
\* are one day shorter.
C17_LeapYearOneShorter ==
  resp.op = "ace/daily" =>
    Len(resp.average.daily) =
      (IF isLeap(arg.year) /\ getUTCMonth(arg.end) > 1
       THEN Len(resp.labels) - 1 ELSE Len(resp.labels))

\* C17: the daily summary of the leap year to 1 March has 61 labels and
\* current values, and 60 average values.
C17_LeapYearCase ==
  /\ resp.op = "ace/daily"
  /\ arg.year = ArchiveYear
  /\ arg.end = DateUTC(ArchiveYear, 2, 1, 0)
  /\ Len(resp.labels) = 61
  /\ Len(resp.current.cum) = 61
  /\ Len(resp.average.daily) = 60
  /\ Len(resp.average.cum) = 60


\* ------------------------------------------------------------------------
\* GET /summary: the cutoff of the category-days climatology
\* ------------------------------------------------------------------------
\* The average category days over the baseline years that have rows, each
\* year counted to the month and day of `cutoff` (the whole year when NULL).
CategoryClimoAverage(rws, cutoff) ==
  LET ys == CatBaselineYears(rws, BaseStart, BaseEnd)
      d == [i \in 1..Len(ys) |-> computeCategoryDays(groupByStorm(rws, ys[i]), ys[i], cutoff)]
  IN  [k \in Categories |-> AvgTenths(SumSeq([i \in 1..Len(ys) |-> d[i][k]]), Len(ys))]

\* C19: with a cutoff, the category-days climatology is the average of the
\* baseline years each counted to the month and day of the cutoff, as the
\* category days of the current season are.
C19_ClimoUsesSameCutoff ==
  (resp.op = "summary" /\ arg.cutoff # NULL) =>
    resp.categoryDaysClimo.average = CategoryClimoAverage(cache.rows, arg.cutoff)

\* C19: with or without a cutoff, the category-days climatology is the
\* average of the whole baseline years.
C19_ClimoOfWholeYears ==
  resp.op = "summary" =>
    resp.categoryDaysClimo.average = CategoryClimoAverage(cache.rows, NULL)

\* C19: the archive season with one 40-kt fix on 1 September 00Z, asked with
\* the cutoff 31 August: the season has no storm days to the cutoff, and the
\* climatology of that same year reports 0.3 days, where its days to the
\* cutoff are 0.
C19_CutoffIgnoredCase ==
  /\ resp.op = "summary"
  /\ arg.year = ArchiveYear
  /\ arg.cutoff = DateUTC(ArchiveYear, 7, 31, 0)
  /\ Len(cache.rows) = 1
  /\ cache.rows[1].time = S2(ArchiveYear)
  /\ resp.categoryDays["TS"] = 0
  /\ resp.categoryDaysClimo.average["TS"] = 3
  /\ CategoryClimoAverage(cache.rows, arg.cutoff)["TS"] = 0


\* ------------------------------------------------------------------------
\* computeCategoryDays with a cutoff
\* ------------------------------------------------------------------------
\* The limit of the claim: 23:59:59.999 UTC of the month and day of the
\* cutoff in the target year, given as the hour that begins one millisecond
\* after it (midnight of the next day).
LimitHour(year, cutoff) == DateUTC(year, getUTCMonth(cutoff), getUTCDate(cutoff), 0) + 24

\* The milliseconds the claim gives fix i of a track under the limit that
\* ends before the hour LH: nothing after the limit, otherwise
\* min(12 h, min(next or +6 h, limit) - time). An instant of whole hours is
\* after the limit exactly when it is LH or later.
ClaimedMsToLimit(pts, i, LH) ==
  LET start == pts[i].time
      next == IF i < Len(pts) THEN pts[i + 1].time ELSE start + 6
      toEnd == IF next >= LH THEN (LH - start) * MsPerHour - 1
               ELSE (next - start) * MsPerHour
  IN  IF start >= LH THEN 0
      ELSE IF toEnd > 12 * MsPerHour THEN 12 * MsPerHour
      ELSE toEnd

\* The milliseconds the claim gives category k over a storm map.
ClaimedCategoryMsToLimit(sm, k, LH) ==
  SumSeq([s \in 1..Len(sm) |->
    SumSeq([i \in 1..Len(sm[s].val) |->
      IF classify1min(sm[s].val[i].usaWind) = k
      THEN ClaimedMsToLimit(sm[s].val, i, LH) ELSE 0])])

\* The milliseconds from the first fix of a track to the limit.
MsToLimit(pts, LH) ==
  IF pts[1].time >= LH THEN 0 ELSE (LH - pts[1].time) * MsPerHour - 1

\* C20: with a cutoff, the limit is the end of the day of the cutoff's month
\* and day in the target year; a fix after the limit adds nothing, a fix at
\* or before it adds min(12 h, min(next fix or +6 h, limit) - time) to its
\* category; the days returned are those hours over 24, to one decimal; and
\* one storm alone never has more time counted than there is from its first
\* fix to the limit.
C20_IntervalsTrimmedAtLimit ==
  (resp.op = "computeCategoryDays" /\ arg.cutoff # NULL) =>
    /\ \A k \in Categories :
         /\ resp.hoursMs[k] =
              ClaimedCategoryMsToLimit(stormMap, k, LimitHour(arg.year, arg.cutoff))
         /\ resp.days[k] =
              DaysTenths(ClaimedCategoryMsToLimit(stormMap, k, LimitHour(arg.year, arg.cutoff)))
    /\ Len(stormMap) = 1 =>
         TotalMs(resp.hoursMs) <= MsToLimit(stormMap[1].val, LimitHour(arg.year, arg.cutoff))

\* C20: the cutoff is 1 August of the following year and the target year's
\* 1 August is the limit: a tropical-storm fix at 00Z of 1 August, a second
\* one 13 h later and a third on 2 August 19Z add 12 h, 10 h 59 min 59.999 s
\* and nothing.
C20_Witness ==
  /\ resp.op = "computeCategoryDays"
  /\ arg.cutoff = DateUTC(BulletinYear, 7, 1, 0)
  /\ Len(stormMap) = 1
  /\ Len(stormMap[1].val) = 3
  /\ stormMap[1].val[2].time = TrackStart + 13
  /\ stormMap[1].val[3].time = TrackStart + 43
  /\ \A i \in 1..3 : stormMap[1].val[i].usaWind = W40
  /\ resp.hoursMs["TS"] = 23 * MsPerHour - 1


\* ------------------------------------------------------------------------
\* computeCategoryDays: the category of a fix
\* ------------------------------------------------------------------------
\* Winds at and beside the limits of the categories, in half knots: 33,
\* 33.5, 34, 47.5, 48, 63.5, 64, 129.5 and 130 kt, a negative wind, and none.
ClassWinds == {NULL, 0 - Kt(5), Kt(33), Kt(33) + 1, Kt(34), Kt(47) + 1, Kt(48),
               Kt(63) + 1, Kt(64), Kt(129) + 1, Kt(130)}

\* The tracks: fixes 6 h apart from 1 August 00Z.
ClassTracks ==
  {[i \in 1..Len(ws) |-> TrackFix(TrackStart + 6 * (i - 1), ws[i])] :
     ws \in SeqsUpTo(ClassWinds, MaxFixes) \ {<<>>}}

InitClassify ==
  /\ raw = <<>> /\ rows = <<>> /\ text = <<>> /\ bstorms = <<>> /\ stage = "idle"
  /\ IdleApi
  /\ \E pts \in ClassTracks : stormMap = <<[key |-> ExtId("WP01"), val |-> pts]>>

NextClassify == CategoryDays(NULL)

SpecClassify == InitClassify /\ [][NextClassify]_vars

\* The category the claim gives a wind of w half knots: by the wind as it is.
ClaimedCategory(w) ==
  CASE w = NULL -> "none"
    [] w # NULL /\ w < 2 * 34 -> "TD"
    [] w # NULL /\ 2 * 34 <= w /\ w < 2 * 48 -> "TS"
    [] w # NULL /\ 2 * 48 <= w /\ w < 2 * 64 -> "STS"
    [] w # NULL /\ 2 * 64 <= w /\ w < 2 * 130 -> "TY"
    [] w # NULL /\ 2 * 130 <= w -> "STY"

\* The hours of the fixes of a track whose claimed category is k.
HoursClaimedFor(pts, k) ==
  SumSeq([i \in 1..Len(pts) |->
    IF ClaimedCategory(pts[i].usaWind) = k THEN ClaimedHours(pts, i) ELSE 0])

\* The hours of the fixes of a track that have a wind.
HoursWithWind(pts) ==
  SumSeq([i \in 1..Len(pts) |-> IF pts[i].usaWind # NULL THEN ClaimedHours(pts, i) ELSE 0])

\* C21: every fix with a wind adds its hours to the one category of its
\* unrounded wind (TD below 34 kt, TS from 34, STS from 48, TY from 64, STY
\* from 130), a fix without a wind adds to none, and the five totals are the
\* only outputs.
C21_CategoryOfRawWind ==
  resp.op = "computeCategoryDays" =>
    /\ DOMAIN resp.days = {"TD", "TS", "STS", "TY", "STY"}
    /\ \A k \in DOMAIN resp.days :
         /\ resp.hoursMs[k] = HoursClaimedFor(stormMap[1].val, k) * MsPerHour
         /\ resp.days[k] = DaysTenths(HoursClaimedFor(stormMap[1].val, k) * MsPerHour)
    /\ TotalMs(resp.hoursMs) = HoursWithWind(stormMap[1].val) * MsPerHour

\* C21: a fix of 33.5 kt, which rounds to 35 kt, and a fix without a wind:
\* 6 h of tropical depression and nothing else.
C21_Witness ==
  /\ resp.op = "computeCategoryDays"
  /\ Len(stormMap[1].val) = 2
  /\ stormMap[1].val[1].usaWind = Kt(33) + 1
  /\ stormMap[1].val[2].usaWind = NULL
  /\ resp.hoursMs["TD"] = 6 * MsPerHour
  /\ TotalMs(resp.hoursMs) = 6 * MsPerHour
  /\ resp.days["TD"] = 3

\* ------------------------------------------------------------------------
\* parseBDeckText: the lines that give a fix
\* ------------------------------------------------------------------------
\* Timestamps of ten digits: 19 August 06Z, month 13, day 32, hour 24; and
\* one that is not ten digits.
StampTokens ==
  {Ymdh(BulletinYear, 8, 19, 6), Ymdh(BulletinYear, 13, 1, 0),
   Ymdh(BulletinYear, 8, 32, 0), Ymdh(BulletinYear, 8, 19, 24),
   [Ymdh(BulletinYear, 8, 19, 6) EXCEPT !.digits10 = FALSE]}

\* Latitude tokens 272N, 105S and 5N; longitude tokens 1276E, 1790W and 1276N.
LatTokens ==
  {[digits |-> 272, ndig |-> 3, hemi |-> "N"], [digits |-> 105, ndig |-> 3, hemi |-> "S"],
   [digits |-> 5, ndig |-> 1, hemi |-> "N"]}

LonTokens ==
  {[digits |-> 1276, ndig |-> 4, hemi |-> "E"], [digits |-> 1790, ndig |-> 4, hemi |-> "W"],
   [digits |-> 1276, ndig |-> 4, hemi |-> "N"]}

StampLines ==
  {[BLine(ts, la, W50) EXCEPT !.lonS = lo] :
     ts \in StampTokens, la \in LatTokens, lo \in LonTokens}
  \cup {[BLine(Ymdh(BulletinYear, 8, 19, 6), [digits |-> 272, ndig |-> 3, hemi |-> "N"], W50)
          EXCEPT !.basin = "EP"]}

InitParse ==
  /\ IdleApi
  /\ raw = <<>> /\ rows = <<>> /\ bstorms = <<>> /\ stormMap = <<>>
  /\ stage = "text"
  /\ text \in SeqsUpTo(StampLines, MaxLines)

NextParse == \E num \in {1, InvestLo} : ParseBulletin(num)

SpecParse == InitParse /\ [][NextParse]_vars

\* The points parseBDeckText returned (a storm without points is not kept).
ParsedPoints == IF bstorms = <<>> THEN <<>> ELSE bstorms[1].points

DaysInMonth(y, mo) == IF mo = 12 THEN 31 ELSE CumDays(y)[mo + 1] - CumDays(y)[mo]

\* A timestamp that names an instant of the calendar.
CalendarStamp(ts) ==
  /\ ts.digits10
  /\ ts.mo \in 1..12
  /\ ts.d \in 1..DaysInMonth(ts.y, ts.mo)
  /\ ts.h \in 0..23

\* A coordinate token: digits, the last one the tenths, and a hemisphere letter.
CoordToken(tok, letters) == tok.ndig >= 2 /\ tok.hemi \in letters

CoordTokens(line) ==
  /\ CoordToken(line.latS, {"N", "S", "n", "s"})
  /\ CoordToken(line.lonS, {"E", "W", "e", "w"})

\* The position of a line, in tenths of a degree: south and west negative.
SignedTenths(tok, negative) == IF tok.hemi \in negative THEN 0 - tok.digits ELSE tok.digits

LinePosition(line) ==
  [lat |-> SignedTenths(line.latS, {"S", "s"}), lon |-> SignedTenths(line.lonS, {"W", "w"})]

PositionsOf(lines) == BagOf([i \in 1..Len(lines) |-> LinePosition(lines[i])])

PointPositions(points) ==
  BagOf([i \in 1..Len(points) |-> [lat |-> points[i].lat, lon |-> points[i].lon]])

CalendarLine(line) == line.basin = "WP" /\ CalendarStamp(line.ymdh) /\ CoordTokens(line)

TenDigitLine(line) == line.basin = "WP" /\ line.ymdh.digits10 /\ CoordTokens(line)

\* C22: a line whose timestamp is not an instant of the calendar (not ten
\* digits, month 13, day 32, hour 24) or whose latitude or longitude token is
\* malformed gives no fix, and every other WP line gives exactly one fix, at
\* the signed position of its tokens.
C22_FixPerCalendarLine ==
  stage = "parsed" =>
    /\ Len(ParsedPoints) = Len(SelectSeq(text, CalendarLine))
    /\ PointPositions(ParsedPoints) = PositionsOf(SelectSeq(text, CalendarLine))

\* C22, as the code has it: the WP lines with a timestamp of ten digits and
\* well-formed tokens give one fix each, whatever the month, day and hour.
C22_FixPerTenDigitLine ==
  stage = "parsed" =>
    /\ Len(ParsedPoints) = Len(SelectSeq(text, TenDigitLine))
    /\ PointPositions(ParsedPoints) = PositionsOf(SelectSeq(text, TenDigitLine))

\* C22: a fix comes from a line of month 13, at 1 January of the next year.
C22_Month13GivesFix ==
  /\ stage = "parsed"
  /\ Len(text) = 1
  /\ text[1].ymdh.mo = 13
  /\ Len(ParsedPoints) = 1
  /\ ParsedPoints[1].t = DateUTC(BulletinYear + 1, 0, 1, 0)
  /\ ParsedPoints[1].lat = 0 - 105

\* ------------------------------------------------------------------------
\* Requests interleaved at their awaits, forced reloads and modifications of
\* the archive file
\* ------------------------------------------------------------------------
MaxAwaiting == 2

RequestKinds == {"summary", "cutoff", "daily", "storms", "track"}

KindAt(i) == <<"summary", "cutoff", "daily", "storms", "track">>[i]

RequestYears == {ArchiveYear, BulletinYear}

\* The handlers that call ensureLoaded() before anything else.
LoadsFirst(kind) == kind \in {"summary", "cutoff", "daily"}

\* if (year >= 2025) ... await fetchActiveBDecks(year, 60)
Awaits(year) == year >= BulletinYear

\* The handlers suspended at `await fetchActiveBDecks`: how many of each route.
Awaiting(counts) == [stage |-> "awaited", by |-> counts]

NoneAwaiting == [kind \in RequestKinds |-> 0]

Suspended(counts) == SumSeq([i \in 1..Cardinality(RequestKinds) |-> counts[KindAt(i)]])

\* What a handler does with the archive once it is past the bulletin branch:
\* /summary and /storms call mapForYear(year), the track route ensureLoaded().
ArchivePart(kind, c, year, content, mt) ==
  IF kind \in {"summary", "storms"} THEN mapForYear(c, year, content, mt)
  ELSE IF kind = "track" THEN ensureLoaded(c, FALSE, content, mt)
  ELSE c

ArchivePartHistory(kind, h, c, content, mt) ==
  IF kind \in {"summary", "storms", "track"} THEN History(h, c, FALSE, content, mt) ELSE h

\* The archive files: an empty one, whose rows are an empty array, and one
\* with a fix of a storm of the archive year.
RequestFiles == {<<>>, <<RawRow("ALICE", T1, "WP01", "", W50)>>}

InitRequests ==
  /\ rows = <<>> /\ text = <<>> /\ bstorms = <<>> /\ stormMap = <<>> /\ stage = "idle"
  /\ raw \in RequestFiles
  /\ mtime = 1
  /\ cache = EmptyCache
  /\ hist = NoHist
  /\ decks = <<>>
  /\ arg = NoArg
  /\ resp = NoResp
  /\ fetch = Awaiting(NoneAwaiting)

\* A request arrives and its handler runs to its await, or to its response
\* when it has none.
BeginRequest(kind, year) ==
  LET c1 == IF LoadsFirst(kind) THEN ensureLoaded(cache, FALSE, raw, mtime) ELSE cache
      h1 == IF LoadsFirst(kind) THEN History(hist, cache, FALSE, raw, mtime) ELSE hist
      c2 == ArchivePart(kind, c1, year, raw, mtime)
      h2 == ArchivePartHistory(kind, h1, c1, raw, mtime)
  IN  /\ IF Awaits(year)
         THEN /\ Suspended(fetch.by) < MaxAwaiting
              /\ h1.loads <= MaxLoads
              /\ cache' = c1
              /\ hist' = h1
              /\ fetch' = Awaiting([fetch.by EXCEPT ![kind] = @ + 1])
              /\ resp' = resp
         ELSE /\ h2.loads <= MaxLoads
              /\ cache' = c2
              /\ hist' = h2
              /\ fetch' = fetch
              /\ resp' = [op |-> kind, year |-> year, archive |-> TRUE]
      /\ UNCHANGED <<tracksVars, mtime, decks, arg>>

\* The fetch of a suspended handler settles and the handler runs to its
\* response: from the bulletins, or, for a track the bulletins do not have,
\* from the archive.
ResumeRequest(kind, found) ==
  /\ fetch.by[kind] > 0
  /\ found \/ kind = "track"
  /\ LET fallback == kind = "track" /\ ~found
         c2 == IF fallback THEN ensureLoaded(cache, FALSE, raw, mtime) ELSE cache
         h2 == IF fallback THEN History(hist, cache, FALSE, raw, mtime) ELSE hist
     IN  /\ h2.loads <= MaxLoads
         /\ cache' = c2
         /\ hist' = h2
         /\ fetch' = Awaiting([fetch.by EXCEPT ![kind] = @ - 1])
         /\ resp' = [op |-> kind, year |-> BulletinYear, archive |-> fallback]
  /\ UNCHANGED <<tracksVars, mtime, decks, arg>>

NextRequests ==
  \/ \E kind \in RequestKinds, year \in RequestYears : BeginRequest(kind, year)
  \/ \E kind \in RequestKinds, found \in BOOLEAN : ResumeRequest(kind, found)
  \/ Reload
  \/ \E content \in RequestFiles : ModifyFile(content)

SpecRequests == InitRequests /\ [][NextRequests]_vars

\* The archive has been used: a handler has come past an ensureLoaded().
ArchiveUsed ==
  \/ \E kind \in RequestKinds : LoadsFirst(kind) /\ fetch.by[kind] > 0
  \/ resp.op \in RequestKinds /\ (resp.archive \/ LoadsFirst(resp.op))
  \/ resp.op = "reload"

\* C23: whatever requests are interleaved at their awaits, the archive is
\* loaded at its first use, and a step loads it again only when it is a
\* forced reload or when the modification time of the file differs from the
\* cached one; while the file is unmodified and no reload has been forced,
\* the archive has been loaded exactly once.
C23_LoadedOnceThenOnChange ==
  /\ [](/\ ArchiveUsed => cache.hasRows
        /\ cache.hasRows <=> hist.loads >= 1
        /\ (cache.hasRows /\ mtime = 1 /\ hist.forced = 0) => hist.loads = 1)
  /\ [][/\ hist.loads' \in {hist.loads, hist.loads + 1}
        /\ hist.loads' # hist.loads =>
             \/ ~cache.hasRows
             \/ hist.forced' = hist.forced + 1
             \/ mtime # cache.mtimeMs]_vars

\* C23: a track request of the bulletin year has fallen back to the archive
\* while another request is suspended, after requests of both years, and the
\* archive has been loaded once.
C23_Witness ==
  /\ resp.op = "track" /\ resp.year = BulletinYear /\ resp.archive
  /\ Suspended(fetch.by) = 1 /\ fetch.by["summary"] = 1
  /\ MapHas(cache.yearMaps, ArchiveYear)
  /\ mtime = 1 /\ hist.forced = 0
  /\ hist.loads = 1

\* ------------------------------------------------------------------------
\* fetchActiveBDecks: the requests of one call
\* ------------------------------------------------------------------------
\* The numbers whose request is in flight: issued, and its task not settled.
InFlight == {n \in 1..MaxProbe : fetch.pos[n] \in {"fetching", "reading"}}

\* The batch of storm number n, counted from 0.
BatchOf(n) == (n - 1) \div BatchSize

\* C24: one call issues one request for each storm number 1..max and never a
\* second one, at most a batch's size of them are in flight at any instant,
\* and no request of a batch is issued before every request of the batches
\* before it has settled.
C24_OneRequestEachInBatches ==
  /\ [](/\ Cardinality(InFlight) <= BatchSize
        /\ \A n, m \in 1..MaxProbe :
             (BatchOf(m) < BatchOf(n) /\ fetch.pos[n] # "none") => fetch.pos[m] = "settled"
        /\ FetchDone => \A n \in 1..MaxProbe : fetch.pos[n] = IF n <= arg.max THEN "settled" ELSE "none")
  /\ [][\A n \in 1..MaxProbe :
          /\ (fetch.pos'[n] = "fetching" /\ fetch.pos[n] # "fetching") => fetch.pos[n] = "none"
          /\ fetch.pos'[n] = "none" => fetch.pos[n] = "none"
          /\ fetch.pos[n] = "settled" => fetch.pos'[n] = "settled"]_vars

\* C24: the second batch is in flight, one of its requests answered and its
\* text awaited, every request of the first batch settled.
C24_Witness ==
  /\ fetch.stage = "batch"
  /\ fetch.i = BatchSize
  /\ InFlight = BatchSlice(fetch.i, arg.max)
  /\ \E n, m \in InFlight : fetch.pos[n] = "reading" /\ fetch.pos[m] = "fetching"
  /\ \A n \in BatchSlice(0, arg.max) : fetch.pos[n] = "settled"

\* ------------------------------------------------------------------------
\* mapForYear: the per-year maps of the cache
\* ------------------------------------------------------------------------
\* C25: after any sequence of ensureLoaded, forced reloads, mapForYear calls
\* and modifications of the file, the map mapForYear(y) returns is
\* groupByStorm of the rows now in the cache for the year y, and so is every
\* per-year map the cache holds: none is of the rows of an earlier load.
C25_YearMapOfCurrentRows ==
  /\ resp.op = "mapForYear" => resp.map = groupByStorm(cache.rows, arg.year)
  /\ \A i \in 1..Len(cache.yearMaps) :
       cache.yearMaps[i].val = groupByStorm(cache.rows, cache.yearMaps[i].key)

\* C25: mapForYear of the archive year after the file was modified and
\* loaded anew, with other rows than at the load before: the map has the
\* storm of the new rows, and both years are mapped again.
C25_Witness ==
  /\ resp.op = "mapForYear" /\ arg.year = ArchiveYear
  /\ mtime = 2 /\ cache.mtimeMs = 2
  /\ hist.loads = 3 /\ hist.forced = 1
  /\ Len(cache.rows) = 2
  /\ Len(resp.map) = 1
  /\ Len(cache.yearMaps) = 2

\* ------------------------------------------------------------------------
\* ensureLoaded when the file cannot be read
\* ------------------------------------------------------------------------
\* Where ensureLoaded throws: in fs.statSync (the file is missing), or in
\* loadIBTrACS (the file is gone or unreadable by the time it is read).
ThrowPoints == {"stat", "load"}

\* ensureLoaded(force) throws at the point `at`: ensureLoaded(true) in
\* GET /reload, whose catch answers 500, or ensureLoaded() of a handler.
EnsureLoadedFails(force, at) ==
  /\ at = "load" => MustLoad(cache, force, mtime)
  /\ cache' = IF at = "stat" THEN cache ELSE FailedLoad(cache, mtime)
  /\ arg' = [op |-> IF force THEN "reload" ELSE "ensureLoaded"]
  /\ resp' = [op |-> IF force THEN "reload" ELSE "ensureLoaded", ok |-> FALSE, error |-> at]
  /\ UNCHANGED <<tracksVars, mtime, hist, decks, fetch>>

NextFailure ==
  \/ EnsureLoaded
  \/ Reload
  \/ \E year \in {EpochYear, ArchiveYear} : MapForYear(year)
  \/ \E content \in RequestFiles : ModifyFile(content)
  \/ \E force \in BOOLEAN, at \in ThrowPoints : EnsureLoadedFails(force, at)

SpecFailure == InitCache /\ [][NextFailure]_vars

\* The last call of ensureLoaded raised an error.
Raised(r) == r.op \in {"ensureLoaded", "reload"} /\ "error" \in DOMAIN r

\* The cache as the last successful load, of the content `content`, and the
\* mapForYear calls since have left it; empty when there was none.
OfLastLoad(c, h) ==
  IF h.loads = 0 THEN c = EmptyCache
  ELSE /\ c.hasRows
       /\ c.rows = filterWP(loadIBTrACS(h.content))
       /\ c.allMap = groupByStorm(c.rows, 0)
       /\ \A i \in 1..Len(c.yearMaps) :
            c.yearMaps[i].val = groupByStorm(c.rows, c.yearMaps[i].key)

\* C26: an ensureLoaded that fails, at the stat or at the load, raises an
\* error and leaves the cache as it was: rows, allMap, yearMaps and mtimeMs
\* are those of the last successful load.
C26_FailedLoadLeavesCache ==
  /\ [](Raised(resp) => OfLastLoad(cache, hist))
  /\ [][Raised(resp') => (cache' = cache /\ hist' = hist)]_vars

\* C26: a forced reload has failed at the load, after the file loaded before
\* was modified: the cache has the rows, the per-year map and the
\* modification time of the load before.
C26_Witness ==
  /\ Raised(resp) /\ resp.op = "reload" /\ resp.error = "load"
  /\ hist.loads = 1
  /\ cache.mtimeMs = 1 /\ mtime = 2
  /\ hist.content # raw
  /\ Len(cache.rows) = 2
  /\ Len(cache.yearMaps) = 1

\* ------------------------------------------------------------------------
\* The season's ACE to a date, by computeACEDaily, computeACEYTD and
\* computeACEYTDMonthlyCum
\* ------------------------------------------------------------------------
TotalRow(season, time, wind) ==
  [FixRow(wind, 0) EXCEPT !.season = season, !.time = time]

\* Fixes of the season of the archive year: on 31 December of the year
\* before, on 1 and 2 January, at an hour that is not synoptic, on
\* 1 February and on 31 December; and a fix of the season before.
TotalRows ==
  {TotalRow(ArchiveYear, t, w) :
     t \in {DateUTC(EpochYear, 11, 31, 18), DateUTC(ArchiveYear, 0, 1, 0),
            DateUTC(ArchiveYear, 0, 2, 6), DateUTC(ArchiveYear, 0, 2, 3),
            DateUTC(ArchiveYear, 1, 1, 12), DateUTC(ArchiveYear, 11, 31, 18)},
     w \in {W35, W50}}
  \cup {TotalRow(EpochYear, DateUTC(EpochYear, 11, 31, 18), W50)}

\* As-of dates: 2 January, 1 February and 1 March of the archive year, and
\* 2 January of the year after.
TotalAsOfs ==
  {DateUTC(ArchiveYear, 0, 2, 0), DateUTC(ArchiveYear, 1, 1, 0),
   DateUTC(ArchiveYear, 2, 1, 0), DateUTC(BulletinYear, 0, 2, 0)}

InitTotals ==
  /\ raw = <<>> /\ text = <<>> /\ bstorms = <<>> /\ stormMap = <<>> /\ stage = "idle"
  /\ IdleApi
  /\ rows \in SeqsUpTo(TotalRows, MaxFixes)

\* computeACEDaily and computeACEByCutoff (computeACEYTD and
\* computeACEYTDMonthlyCum) of the same rows, year and as-of date.
AceTotals(year, asOfDate) ==
  /\ resp = NoResp
  /\ arg' = [op |-> "aceTotals", year |-> year, asOf |-> asOfDate]
  /\ resp' = [op |-> "aceTotals",
              daily |-> computeACEDaily(rows, year, asOfDate),
              byCutoff |-> computeACEByCutoff(rows, year, asOfDate)]
  /\ UNCHANGED <<tracksVars, mtime, cache, hist, decks, fetch>>

NextTotals == \E asOfDate \in TotalAsOfs : AceTotals(ArchiveYear, asOfDate)

SpecTotals == InitTotals /\ [][NextTotals]_vars

NonDecreasing(series) == \A i \in 1..(Len(series) - 1) : series[i] <= series[i + 1]

\* The fixes counted for the season to the as-of date lie on the days from
\* 1 January of the year to the as-of date's month and day in that year.
CountedWithinAxis(rws, year, asOfDate) ==
  \A i \in 1..Len(rws) :
    (/\ rws[i].season = year
     /\ ~(rws[i].time > endOfDayUTC(asOfDate))
     /\ isSynopticHour(rws[i].time)
     /\ WindAce(rws[i].usaWind) > 0)
    => /\ DailyIndex(rws[i], year) >= 0
       /\ DailyIndex(rws[i], year) < DailyLength(year, asOfDate)

\* C27: for every set of rows, year and as-of date, the total of
\* computeACEDaily, the value of computeACEYTD and the December entry of
\* computeACEYTDMonthlyCum are equal, and both cumulative series are
\* non-decreasing.
C27_ThreeTotalsEqual ==
  resp.op = "aceTotals" =>
    /\ resp.daily.total = resp.byCutoff.total
    /\ resp.byCutoff.total = resp.byCutoff.cumMonthly[12]
    /\ NonDecreasing(resp.daily.cum)
    /\ NonDecreasing(resp.byCutoff.cumMonthly)

\* C27, as the code has it: computeACEYTD and the December entry are always
\* equal and both series non-decreasing; the total of computeACEDaily is
\* equal to them when every counted fix lies on the daily axis.
C27_TotalsEqualWithinAxis ==
  resp.op = "aceTotals" =>
    /\ resp.byCutoff.total = resp.byCutoff.cumMonthly[12]
    /\ NonDecreasing(resp.daily.cum)
    /\ NonDecreasing(resp.byCutoff.cumMonthly)
    /\ resp.daily.total <= resp.byCutoff.total
    /\ CountedWithinAxis(rows, arg.year, arg.asOf) <=>
         SumSeq(ACEDailyRaw(rows, arg.year, arg.asOf)) = ACEYTDRaw(rows, arg.year, arg.asOf)
    /\ CountedWithinAxis(rows, arg.year, arg.asOf) => resp.daily.total = resp.byCutoff.total

\* C27: the season of the archive year as of 2 January of the year after,
\* with one 50-kt fix on 1 February: the daily axis ends on 2 January and
\* its total is 0, computeACEYTD and the December entry are 0.3.
C27_AsOfNextYearCase ==
  /\ resp.op = "aceTotals"
  /\ arg.asOf = DateUTC(BulletinYear, 0, 2, 0)
  /\ rows = <<TotalRow(ArchiveYear, DateUTC(ArchiveYear, 1, 1, 12), W50)>>
  /\ Len(resp.daily.cum) = 2
  /\ resp.daily.total = 0
  /\ resp.byCutoff.total = 3
  /\ resp.byCutoff.cumMonthly[12] = 3

====
